---- MODULE Spec2Model ----
(***************************************************************************)
(* Model of the JFFS2 node-stream parser of BANG                           *)
(* (src/src/bang/parsers/filesystem/jffs2/UnpackParser.py).                *)
(*                                                                         *)
(* Jffs2UnpackParser.parse() walks the records of the input once, one      *)
(* loop iteration per action.  The input file is adversarial: the record   *)
(* decoded at the current read offset is chosen when it is read, which     *)
(* covers every file because the read offset never moves backwards over a  *)
(* record that was decoded.  A record is classified relative to the byte   *)
(* order of the first record: "normal" is the magic of that byte order.    *)
(* Python exceptions are outcomes of the model:                            *)
(* UnpackParserException is the structural error (pc = "failed"), every    *)
(* other exception that leaves parse() is a fault (pc = "fault", exc names *)
(* its class).  The step of unpack() that decodes a fragment and writes it *)
(* to its output file has a specification of its own, SpecCodec.           *)
(*                                                                         *)
(* Beside the JFFS2 parser the module models the store of                  *)
(* src/src/unpack_directory.py during a scan (SpecStore), the placing of   *)
(* logical paths by unpacked_path(), write_file() and mkdir() (SpecPath),  *)
(* and the sizes reported by the ELF, GPT, 7z and NIB parsers (SpecSize).  *)
(* SpecHandle reads the size property of an UnpackDirectory, SpecLife      *)
(* calls parse_from_offset(), write_info() and unpack() the way the test   *)
(* of the WAV parser does, SpecWalk runs parse() and then unpack() of the  *)
(* JFFS2 parser over one file, and SpecScan is the scan of a region as the *)
(* specification describes it.  The specifications share the variables;    *)
(* each leaves alone those of the others.                                  *)
(***************************************************************************)
EXTENDS Integers, Sequences, FiniteSets, TLC

(***************************************************************************)
(* Bounds of the model.                                                    *)
(***************************************************************************)
MaxRecords == 3

(***************************************************************************)
(* Constants of the program and of the on-disk format it reads.            *)
(***************************************************************************)
RootInode == 1
PageSize == 4096
\* the bytes unpack() reads of a record before its data: lines 437-495 for a
\* header (magic 2, node type 2, length 4, checksum 4), lines 498-545 for a
\* directory entry up to its name, lines 566-669 for an inode up to its
\* payload
HeaderLen == 12
RawInodeLen == 68
RawDirentLen == 40

Inodes == {0, 1, 2}
Versions == {1, 2}
NameSet == {"a"}
NodeTypes == {"dirent", "inode", "other"}
Compressions == {"no_compression", "zlib", "lzma", "rtime", "lzo", "unknown"}
\* a file that ends inside the alignment of its first directory entry, and
\* one that reaches over the first page boundary
Sizes == {RawDirentLen + 2, PageSize + 8}

\* the names parse() binds: decompressed_size is read on lines 363, 370, 394
\* and 401 but is assigned nowhere in parse() nor at module level
ParseNamesAll == {"root_inode", "inode_to_filename", "data_unpacked",
    "inodes_seen_version", "parent_inodes_seen", "inode_to_write_offset",
    "inode_to_open_files", "current_inode", "root_seen", "prev_is_padding",
    "cur_offset", "buf", "node_magic_type", "jffs2_inode", "ofs",
    "bytes_to_read", "unpackedsize", "paddingbytes", "stored_offset",
    "crc_bytes", "computedcrc", "inode_name", "filemode", "symlink",
    "writeoffset", "jffs_filters", "decompressor", "positions", "data_out",
    "outpos", "pos", "value", "repeat", "backoffs", "e",
    "decompressed_size"}
ParseNames == ParseNamesAll \ {"decompressed_size"}

VARIABLES
    pc,                     \* where the parser instance is
    exc,                    \* class of the exception that ended the call
    size,                   \* self.infile.size
    pos,                    \* self.infile.tell()
    cur_offset,
    inode_to_filename,
    data_unpacked,
    inodes_seen_version,
    parent_inodes_seen,
    inode_to_write_offset,
    inode_to_open_files,
    current_inode,
    prev_is_padding,
    unpacked_size,
    outfile,                \* bytes written to the open file of current_inode
    nrec,                   \* records read so far (history, bounds the run)
    last,                   \* the record read by the last step (history)
    fragment,               \* the fragment written by the last step (history)
    open_files,             \* inodes whose output file is open
    pathname,               \* UnpackDirectory: the pathname file of each node
    info_pkl,               \* the info.pkl file of each node
    _file_path,             \* the _file_path of each UnpackDirectory object
    task,                   \* where the task that owns a node is
    info,                   \* the local info of add_extracted_file
    unpack_directory,       \* the argument of add_extracted_file
    writes,                 \* times each file was written (history)
    first_info,             \* what the first read of info returned (history)
    creator,                \* the node whose unpack_files made a node (history)
    dirs,                   \* the directories under unpack_root
    files,                  \* the files under unpack_root
    returned,               \* what the last write_file or mkdir returned
    resolved,               \* the calls made and where each ended (history)
    self_data,              \* self.data of the ELF, GPT, 7z and NIB parsers
    _size,                  \* the _size of the UnpackDirectory of the root
    st_size,                \* the size of the file at its abs_file_path
    size_result,            \* how the last read of its size ended
    md_info,                \* the info write_info() left in the meta directory
    unpacked_files,         \* the unpacked_files of the meta directory
    section_at,             \* the section header unpack() of ELF is at
    stream,                 \* the records of the file parse() and unpack() read
    slack,                  \* the bytes 4..11 of a padding record of the file
    turns,                  \* the iterations of the record loop of unpack()
    visited,                \* the offsets unpack() read a record header at
    materialized,           \* the inodes unpack() made a directory or file for
    scan_region,            \* the byte region the engine scans
    scan_cursor,            \* the scan cursor, an offset in the region
    span_start,             \* where the unclaimed span before the cursor starts
    tried,                  \* the candidates tried at the cursor
    scan_nodes,             \* the nodes recorded for the region
    queue,                  \* the extracted children that wait for their scan
    processed,              \* the bytes charged to the byte budget
    hit_at                  \* the offsets a candidate was tried at (history)

parserVars == <<pc, exc, size, pos, cur_offset, inode_to_filename,
                data_unpacked, inodes_seen_version, parent_inodes_seen,
                inode_to_write_offset, inode_to_open_files, current_inode,
                prev_is_padding, unpacked_size, outfile, nrec, last,
                fragment, open_files>>

storeVars == <<pathname, info_pkl, _file_path, task, info, unpack_directory,
               writes, first_info, creator>>

pathVars == <<dirs, files, returned, resolved>>

handleVars == <<_size, st_size, size_result>>

lifeVars == <<md_info, unpacked_files, section_at>>

walkVars == <<stream, slack, turns, visited, materialized>>

scanVars == <<scan_region, scan_cursor, span_start, tried, scan_nodes, queue,
              processed, hit_at>>

extraVars == <<handleVars, lifeVars, walkVars, scanVars>>

others == <<storeVars, pathVars, self_data, extraVars>>

vars == <<parserVars, others>>

\* Python's None, for a name that otherwise holds an inode number or an
\* offset, neither of which is negative
None == -1
\* no exception has left the call
NoException == "None"
EmptyMap == [i \in {} |-> 0]

\* a decoded record with every field at its default
NoRec == [kind |-> "none", raw |-> "none", inode_type |-> "none",
          len_inode |-> 0, consumed |-> 0, header_crc_ok |-> TRUE,
          parent_inode |-> 0, inode_number |-> 0, inode_version |-> 0,
          name |-> "", name_ok |-> TRUE, name_crc_ok |-> TRUE,
          file_mode |-> "none", link_ok |-> TRUE, ofs_write |-> 0,
          compression |-> "none", compressed_size |-> 0,
          decompressed_size |-> 0, lzma_ok |-> TRUE, zero_fill |-> FALSE]

\* what the history keeps of a record: its offset and its fields
Note(rec, off) ==
    [f \in DOMAIN rec \cup {"off"} |-> IF f = "off" THEN off ELSE rec[f]]
NoNote == Note(NoRec, 0)

\* what the history keeps of a fragment handed to the write step of unpack()
NoFragment == [compression_used |-> "none", buf |-> <<>>,
               decompressed_size |-> 0, writeoffset |-> 0]

\* lines 403-407: round the offset up to the next multiple of 4
Align4(t) == IF t % 4 # 0 THEN t + (4 - (t % 4)) ELSE t


DirentLens == {RawDirentLen + 1}
InodeLens == {RawInodeLen, RawInodeLen + 1, PageSize - 4}
ShortLens == {HeaderLen, HeaderLen + 1}
DataLens == {0, 1}
\* the length a record declares in its header (len_inode, line 244): the
\* number of bytes the decoder takes for it, or none
DeclaredLens(ln) == {0, ln}

(***************************************************************************)
(* unpack_directory.py: the store.  A node is named by its ud_path: the    *)
(* root by ROOT_PATH, any other by a fresh uuid.  ROOT_PATH stands for     *)
(* 'root' and 1..MaxChildren for the values of uuid.uuid4().hex.           *)
(***************************************************************************)
MaxChildren == 3

ROOT_PATH == 0
Uuids == 1..MaxChildren
UdPaths == {ROOT_PATH} \cup Uuids

\* the logical paths a parser yields
FilePaths == {"a", "b"}

\* a pathname file that does not exist; a _file_path that is None
NoFile == "absent"
NoPath == "None"

\* the objects that stand for a node: the one made by __init__ in the task
\* that creates the node, and one made by from_ud_path elsewhere
Objects == {"init", "from_ud_path"}

\* the dictionary kept in info.pkl; {} has no labels and no edges
EmptyInfo == [labels |-> {}, extracted_files |-> EmptyMap]
NoInfoFile == [exists |-> FALSE, data |-> EmptyInfo]
Unread == [read |-> FALSE, data |-> EmptyInfo]

\* lines 11-25: no node but the root has an object, and nothing is persisted
StoreInit ==
    /\ pathname = [n \in UdPaths |-> NoFile]
    /\ info_pkl = [n \in UdPaths |-> NoInfoFile]
    /\ _file_path = [n \in UdPaths |-> [o \in Objects |-> NoPath]]
    /\ task = [n \in UdPaths |-> IF n = ROOT_PATH THEN "new" ELSE "absent"]
    /\ info = [n \in UdPaths |-> EmptyInfo]
    /\ unpack_directory = [n \in UdPaths |-> None]
    /\ writes = [n \in UdPaths |-> [pathname |-> 0, info |-> 0]]
    /\ first_info = [n \in UdPaths |-> Unread]
    /\ creator = [n \in UdPaths |-> None]

(***************************************************************************)
(* unpack_directory.py: where logical paths are put.  A location is the    *)
(* sequence of names that leads to it from unpack_root; a path is looked   *)
(* up as the operating system does it, name by name, ".." leading to the   *)
(* directory above.                                                        *)
(***************************************************************************)
MaxParts == 3

REL_UNPACK_DIR == "rel"
ABS_UNPACK_DIR == "abs"

\* str(ud_path): 'root' or the hex digits of the uuid
DirName(n) == IF n = ROOT_PATH THEN "root" ELSE ToString(n)

\* the names a logical path is made of, among them the name of the pathname
\* file and of the directory of node 1
Parts == {"a", "..", "pathname", DirName(1)}

\* pathlib paths: absolute or not, and the names after the root
LogicalPaths ==
    { [absolute |-> a, parts |-> p] :
        a \in BOOLEAN, p \in UNION { [1..n -> Parts] : n \in 0..MaxParts } }

NoLocation == <<"None">>

\* lines 60-67 for the root and for node 1: each has its directory and its
\* pathname file; nothing was unpacked
PathInit ==
    /\ dirs = {<<>>, <<DirName(ROOT_PATH)>>, <<DirName(1)>>}
    /\ files = {<<DirName(ROOT_PATH), "pathname">>, <<DirName(1), "pathname">>}
    /\ returned = NoLocation
    /\ resolved = {}

\* self.data of a parser that has decoded nothing
NoData == [format |-> "none"]

(***************************************************************************)
(* unpack_directory.py: the size property of one UnpackDirectory.          *)
(***************************************************************************)
MaxStat == 9

\* a read of size that has not happened, one that returned value, one that
\* raised
NotRead == [called |-> FALSE, raised |-> FALSE, value |-> None]
Gave(value) == [called |-> TRUE, raised |-> FALSE, value |-> value]
RaisedError == [called |-> TRUE, raised |-> TRUE, value |-> None]

\* lines 24-25: _size is None; the file the node stands for has some size
HandleInit ==
    /\ _size = None
    /\ st_size \in 0..MaxStat
    /\ size_result = NotRead

\* the same, with a file of no bytes
HandleIdle ==
    /\ _size = None
    /\ st_size = 0
    /\ size_result = NotRead

\* the info of a meta directory that write_info() has not been called on
NoLabels == [written |-> FALSE, labels |-> {}]

\* test_parser.py line 14: a new meta directory, and a parser whose
\* unpack() has not been called
LifeInit ==
    /\ md_info = NoLabels
    /\ unpacked_files = {}
    /\ section_at = 0

\* jffs2/UnpackParser.py line 417: unpack() has not been called, on a file
\* of no records
WalkIdle ==
    /\ stream = <<>>
    /\ slack = "zeros"
    /\ turns = 0
    /\ visited = {}
    /\ materialized = {}

\* no region is being scanned
NoRegion == [depth |-> 0, len |-> 0]

ScanIdle ==
    /\ scan_region = NoRegion
    /\ scan_cursor = 0
    /\ span_start = 0
    /\ tried = 0
    /\ scan_nodes = {}
    /\ queue = <<>>
    /\ processed = 0
    /\ hit_at = {}

\* the parts of the state that only one specification moves
ExtraInit == HandleIdle /\ LifeInit /\ WalkIdle /\ ScanIdle

(***************************************************************************)
(* State after construction: parse() has not been called.                  *)
(***************************************************************************)
Init ==
    /\ StoreInit
    /\ PathInit
    /\ self_data = NoData
    /\ ExtraInit
    /\ pc = "start"
    /\ exc = NoException
    /\ size \in Sizes
    /\ pos = 0
    /\ cur_offset = 0
    /\ inode_to_filename = EmptyMap
    /\ data_unpacked = FALSE
    /\ inodes_seen_version = {}
    /\ parent_inodes_seen = {}
    /\ inode_to_write_offset = EmptyMap
    /\ inode_to_open_files = {}
    /\ current_inode = None
    /\ prev_is_padding = FALSE
    /\ unpacked_size = None
    /\ outfile = <<>>
    /\ nrec = 0
    /\ last = NoNote
    /\ fragment = NoFragment
    /\ open_files = {}

tables == <<inode_to_filename, data_unpacked, inodes_seen_version,
            parent_inodes_seen, inode_to_write_offset, inode_to_open_files,
            current_inode>>

\* lines 96-134: decode the first record to learn the byte order, set up the
\* tables and rewind; a first record that does not decode is a structural
\* error
ParseBegin ==
    /\ pc = "start"
    /\ \E ok \in BOOLEAN :
        IF ok /\ HeaderLen <= size
        THEN /\ pc' = "loop"
             /\ inode_to_filename' = (RootInode :> <<>>)
             /\ UNCHANGED exc
        ELSE /\ pc' = "failed"
             /\ exc' = "UnpackParserException"
             /\ UNCHANGED inode_to_filename
    /\ pos' = 0
    /\ UNCHANGED <<size, cur_offset, data_unpacked, inodes_seen_version,
                   parent_inodes_seen, inode_to_write_offset,
                   inode_to_open_files, current_inode, prev_is_padding,
                   unpacked_size, outfile, nrec, last, fragment,
                   open_files, others>>

\* the loop is about to read a record header
AtHeader == pc = "loop" /\ nrec < MaxRecords

\* check_condition of bang/UnpackParser.py, imported on line 36: the
\* structural error is raised when the condition does not hold
check_condition(condition) ==
    IF condition THEN NoException ELSE "UnpackParserException"

\* lines 409-410: the two conditions of success
SuccessConditions(du, pis) ==
    /\ check_condition(du) = NoException
    /\ check_condition(RootInode \in pis) = NoException

\* a break, then lines 409-412: the loop ends with cur_offset at the record
\* being read; check_condition raises the structural error, otherwise the
\* file is rewound to cur_offset, which becomes unpacked_size.  du and pis
\* are data_unpacked and parent_inodes_seen as the record leaves them
BreakWith(rec, tell, du, pis) ==
    /\ cur_offset' = pos
    /\ nrec' = nrec + 1
    /\ last' = Note(rec, pos)
    /\ UNCHANGED <<outfile, fragment, open_files, others>>
    /\ IF SuccessConditions(du, pis)
       THEN /\ pc' = "parsed"
            /\ pos' = pos
            /\ unpacked_size' = pos
            /\ UNCHANGED exc
       ELSE /\ pc' = "failed"
            /\ exc' = "UnpackParserException"
            /\ pos' = tell
            /\ UNCHANGED unpacked_size

Break(rec, tell) == BreakWith(rec, tell, data_unpacked, parent_inodes_seen)

\* a continue, or falling off the end of the loop body
Continue(rec, tell) ==
    /\ pc' = "loop"
    /\ cur_offset' = pos
    /\ pos' = tell
    /\ nrec' = nrec + 1
    /\ last' = Note(rec, pos)
    /\ UNCHANGED <<exc, unpacked_size, outfile, fragment, open_files,
                   others>>

\* an exception leaves parse()
Raise(rec, tell, class) ==
    /\ pc' = IF class = "UnpackParserException" THEN "failed" ELSE "fault"
    /\ exc' = class
    /\ cur_offset' = pos
    /\ pos' = tell
    /\ nrec' = nrec + 1
    /\ last' = Note(rec, pos)
    /\ UNCHANGED <<unpacked_size, outfile, fragment, open_files, others>>

\* lines 138-142: the end of the file is reached
ReadEnd ==
    /\ AtHeader
    /\ pos = size
    /\ Break([NoRec EXCEPT !.kind = "eof"], pos)
    /\ UNCHANGED <<size, tables, prev_is_padding>>

\* lines 147-149: fewer than two bytes are left
ReadShort ==
    /\ AtHeader
    /\ pos # size
    /\ pos + 2 > size
    /\ Break([NoRec EXCEPT !.kind = "short"], IF pos < size THEN size ELSE pos)
    /\ UNCHANGED <<size, tables, prev_is_padding>>

\* lines 151-157: the two bytes are no magic of this byte order
ReadBadMagic ==
    /\ AtHeader
    /\ pos + 2 <= size
    /\ Break([NoRec EXCEPT !.kind = "badmagic", !.raw = "bad"], pos + 2)
    /\ UNCHANGED <<size, tables, prev_is_padding>>

\* lines 161-167: empty space, 0xffff twice; prev_is_padding is left as it is
ReadEmpty ==
    /\ AtHeader
    /\ pos + 2 <= size
    /\ \E second \in BOOLEAN :
        LET rec == [NoRec EXCEPT !.kind = "empty", !.raw = "ffff"] IN
        IF second /\ pos + 4 <= size
        THEN Continue(rec, pos + 4)
        ELSE Break(rec, IF pos + 4 <= size THEN pos + 4 ELSE size)
    /\ UNCHANGED <<size, tables, prev_is_padding>>

\* lines 171-179: the record does not decode (ValidationFailedError, EOFError)
ReadUndecodable ==
    /\ AtHeader
    /\ pos + 2 <= size
    /\ \E raw \in {"normal", "dirty"} :
        Break([NoRec EXCEPT !.kind = "undecodable", !.raw = raw], pos + 2)
    /\ UNCHANGED <<size, tables, prev_is_padding>>

\* line 183: the node type did not resolve to a member of the enumeration
TypeIsInt(rec) == rec.inode_type \in {"zero", "unknown"}

\* lines 183-199: a record whose node type is 0 is padding up to the next
\* page, any other unknown type ends the stream; this comes before the
\* dirty test and before the header checksum is looked at
ReadPadding ==
    /\ AtHeader
    /\ \E raw \in {"normal", "dirty"}, type \in {"zero", "unknown"},
          crc \in BOOLEAN, fill \in BOOLEAN :
        LET rec == [NoRec EXCEPT !.raw = raw,
                        !.kind = IF type = "zero" THEN "padding"
                                 ELSE "unknown_type",
                        !.inode_type = type, !.consumed = HeaderLen,
                        !.header_crc_ok = crc, !.zero_fill = fill]
            ofs == pos + rec.consumed
            bytes_to_read == PageSize - ((pos + 4) % PageSize)
        IN
        /\ ofs <= size
        /\ TypeIsInt(rec)
        /\ IF rec.inode_type # "zero" \/ prev_is_padding
           THEN Break(rec, ofs) /\ UNCHANGED prev_is_padding
           ELSE IF (pos + 4) % PageSize # 0
           THEN IF rec.zero_fill /\ ofs + bytes_to_read <= size
                THEN Continue(rec, ofs + bytes_to_read)
                     /\ prev_is_padding' = TRUE
                ELSE Break(rec, ofs) /\ UNCHANGED prev_is_padding
           ELSE Continue(rec, ofs) /\ prev_is_padding' = TRUE
    /\ UNCHANGED <<size, tables>>

\* lines 201-210: a dirty node (zeroed magic) is skipped, 4-byte aligned
ReadDirty ==
    /\ AtHeader
    /\ \E type \in NodeTypes, ln \in ShortLens :
      \E declared \in DeclaredLens(ln) :
        LET rec == [NoRec EXCEPT !.kind = "dirty", !.raw = "dirty",
                        !.inode_type = type, !.len_inode = declared,
                        !.consumed = ln]
        IN
        /\ pos + rec.consumed <= size
        /\ ~TypeIsInt(rec)
        /\ Continue(rec, Align4(pos + rec.consumed))
    /\ prev_is_padding' = FALSE
    /\ UNCHANGED <<size, tables>>

\* lines 227-233: the stored header checksum against the inverted CRC-32
\* of the first 8 bytes of the record
HeaderCrcMatches(rec) == rec.header_crc_ok

\* lines 227-273, 403-407: a node that is neither a directory entry nor an
\* inode (clean marker, padding, summary, xattr, xref) is stepped over
ReadOther ==
    /\ AtHeader
    /\ \E ln \in ShortLens, crc \in BOOLEAN :
      \E declared \in DeclaredLens(ln) :
        LET rec == [NoRec EXCEPT !.kind = "other", !.raw = "normal",
                        !.inode_type = "other", !.len_inode = declared,
                        !.consumed = ln, !.header_crc_ok = crc]
        IN
        /\ pos + rec.consumed <= size
        /\ IF ~HeaderCrcMatches(rec)
           THEN Break(rec, pos + rec.consumed)
           ELSE Continue(rec, Align4(pos + rec.consumed))
    /\ prev_is_padding' = FALSE
    /\ UNCHANGED <<size, tables>>

\* a test for duplicates that finds none
DuplicateInodeNever(rec) == FALSE

\* line 253: the (inode_number, inode_version) pair was seen before
DuplicateInode(rec) ==
    <<rec.inode_number, rec.inode_version>> \in inodes_seen_version

\* a join that takes the path of an unknown parent to be empty
JoinPathAlways(map, rec) ==
    (rec.inode_number :>
        ((IF rec.parent_inode \in DOMAIN map THEN map[rec.parent_inode]
          ELSE <<>>) \o <<rec.name>>)) @@ map

\* lines 269-271: pathlib join of the parent's path and the decoded name
JoinPath(map, rec) ==
    IF rec.parent_inode \in DOMAIN map
    THEN (rec.inode_number :> (map[rec.parent_inode] \o <<rec.name>>)) @@ map
    ELSE map

\* the directory entries the input may hold
DirentRecs ==
    { [NoRec EXCEPT !.kind = "dirent", !.raw = "normal",
           !.inode_type = "dirent", !.len_inode = declared,
           !.consumed = ln,
           !.parent_inode = parent, !.inode_number = ino,
           !.inode_version = ver, !.name = name, !.name_ok = st[1],
           !.name_crc_ok = st[2], !.header_crc_ok = st[3]] :
        parent \in Inodes, ino \in Inodes, ver \in Versions,
        name \in NameSet, ln \in DirentLens,
        declared \in {RawDirentLen + 1, 0},
        st \in {<<TRUE, TRUE, TRUE>>, <<FALSE, TRUE, TRUE>>,
                <<TRUE, FALSE, TRUE>>, <<TRUE, TRUE, FALSE>>} }

\* lines 227-271, 403-407: a directory entry
ReadDirent ==
    /\ AtHeader
    /\ \E rec \in DirentRecs :
        LET tell == pos + rec.consumed
            pis == IF HeaderCrcMatches(rec)
                   THEN parent_inodes_seen \cup {rec.parent_inode}
                   ELSE parent_inodes_seen
        IN
        /\ tell <= size
        /\ parent_inodes_seen' = pis
        /\ IF ~HeaderCrcMatches(rec)
           THEN /\ Break(rec, tell)
                /\ UNCHANGED <<inodes_seen_version, inode_to_filename>>
           ELSE IF rec.inode_number = 0
           THEN \* lines 241-250: unlinked, skip the declared length
                /\ Continue(rec, Align4(pos + rec.len_inode))
                /\ UNCHANGED <<inodes_seen_version, inode_to_filename>>
           ELSE IF DuplicateInode(rec)
           THEN /\ BreakWith(rec, tell, data_unpacked, pis)
                /\ UNCHANGED <<inodes_seen_version, inode_to_filename>>
           ELSE /\ inodes_seen_version' = inodes_seen_version
                        \cup {<<rec.inode_number, rec.inode_version>>}
                /\ IF ~rec.name_ok \/ ~rec.name_crc_ok
                   THEN /\ BreakWith(rec, tell, data_unpacked, pis)
                        /\ UNCHANGED inode_to_filename
                   ELSE /\ inode_to_filename' = JoinPath(inode_to_filename, rec)
                        /\ Continue(rec, Align4(tell))
    /\ prev_is_padding' = FALSE
    /\ UNCHANGED <<size, data_unpacked, inode_to_write_offset,
                   inode_to_open_files, current_inode>>

\* lines 273-276: an inode record for which no file name is known
ReadInodeUnnamed ==
    /\ AtHeader
    /\ \E ino \in Inodes, ln \in InodeLens :
        LET rec == [NoRec EXCEPT !.kind = "inode", !.raw = "normal",
                        !.inode_type = "inode", !.len_inode = ln,
                        !.consumed = ln, !.inode_number = ino]
        IN
        /\ pos + rec.consumed <= size
        /\ HeaderCrcMatches(rec)
        /\ rec.inode_number \notin DOMAIN inode_to_filename
        /\ Break(rec, pos + rec.consumed)
    /\ prev_is_padding' = FALSE
    /\ UNCHANGED <<size, tables>>

\* the inode records of files that are not regular files
MetaRecs ==
    { [NoRec EXCEPT !.kind = "inode", !.raw = "normal",
           !.inode_type = "inode", !.len_inode = declared[2],
           !.consumed = declared[1],
           !.inode_number = ino, !.file_mode = st[1], !.link_ok = st[2],
           !.header_crc_ok = st[3]] :
        ino \in Inodes,
        declared \in {<<ln, ln>> : ln \in InodeLens}
                         \cup {<<RawInodeLen, 0>>},
        st \in {<<"socket", TRUE, TRUE>>, <<"directory", TRUE, TRUE>>,
                <<"link", TRUE, TRUE>>, <<"link", FALSE, TRUE>>,
                <<"other", TRUE, TRUE>>, <<"directory", TRUE, FALSE>>} }

\* lines 227-234, 273-305, 403-407: an inode record, of a named inode or
\* with a wrong header checksum, that is not a regular file: socket,
\* directory, symbolic link or any other mode
ReadInodeMeta ==
    /\ AtHeader
    /\ \E rec \in MetaRecs :
        LET tell == pos + rec.consumed IN
        /\ tell <= size
        /\ ~HeaderCrcMatches(rec)
              \/ rec.inode_number \in DOMAIN inode_to_filename
        /\ IF ~HeaderCrcMatches(rec)
           THEN Break(rec, tell) /\ UNCHANGED data_unpacked
           ELSE IF rec.inode_number = 0
           THEN \* lines 279-288: unlinked, skip the declared length
                Continue(rec, Align4(pos + rec.len_inode))
                /\ UNCHANGED data_unpacked
           ELSE CASE rec.file_mode = "directory" ->
                     \* lines 295-299: seek to the end of the node, continue
                     /\ Continue(rec, pos + rec.len_inode)
                     /\ data_unpacked' = TRUE
                  [] rec.file_mode = "link" ->
                     IF rec.link_ok
                     THEN Continue(rec, Align4(tell)) /\ data_unpacked' = TRUE
                     ELSE Break(rec, tell) /\ UNCHANGED data_unpacked
                  [] OTHER ->
                     Continue(rec, Align4(tell)) /\ UNCHANGED data_unpacked
    /\ prev_is_padding' = FALSE
    /\ UNCHANGED <<size, inode_to_filename, inodes_seen_version,
                   parent_inodes_seen, inode_to_write_offset,
                   inode_to_open_files, current_inode>>

\* lines 337, 353: the decompressors are handed buf, which still holds the two
\* magic bytes read on line 147 and not the payload.  zlib rejects both
\* magics (incorrect header check); raw LZMA1 rejects them or, with a
\* decoder that waits for more input, returns nothing
DecodesMagic(rec) ==
    CASE rec.compression = "zlib" -> FALSE
      [] rec.compression = "lzma" -> rec.lzma_ok
      [] OTHER -> TRUE

\* lines 306-322: the write offset of a fragment against what was written
\* for its inode: "ok", "break" or "KeyError" (the subscript on line 319)
WriteOffsetCheck(rec) ==
    LET ino == rec.inode_number IN
    IF rec.ofs_write = 0
    THEN IF ino \in DOMAIN inode_to_write_offset \/ ino \in inode_to_open_files
         THEN "break" ELSE "ok"
    ELSE IF ino \notin DOMAIN inode_to_write_offset THEN "KeyError"
    ELSE IF rec.ofs_write # inode_to_write_offset[ino] THEN "break"
    ELSE IF ino \notin inode_to_open_files THEN "break"
    ELSE "ok"

\* line 401: record how much was written for the inode; evaluating the
\* right-hand side raises NameError when decompressed_size is not bound
RecordWriteOffset(rec, tell) ==
    IF "decompressed_size" \in ParseNames
    THEN /\ inode_to_write_offset' =
              (rec.inode_number :> (rec.ofs_write + rec.decompressed_size))
                  @@ inode_to_write_offset
         /\ Continue(rec, Align4(tell))
    ELSE /\ Raise(rec, tell, "NameError")
         /\ UNCHANGED inode_to_write_offset

\* lines 306-407: a content fragment of a regular file
ParseRegular(rec, tell) ==
    LET ino == rec.inode_number
        check == WriteOffsetCheck(rec)
    IN
    IF check = "break"
    THEN Break(rec, tell) /\ UNCHANGED tables
    ELSE IF check = "KeyError"
    THEN Raise(rec, tell, "KeyError") /\ UNCHANGED tables
    ELSE
    /\ inode_to_open_files' = IF rec.ofs_write = 0
                              THEN inode_to_open_files \cup {ino}
                              ELSE inode_to_open_files
    /\ current_inode' = IF rec.ofs_write = 0 THEN ino ELSE current_inode
    /\ UNCHANGED <<inode_to_filename, inodes_seen_version, parent_inodes_seen>>
    /\ CASE rec.compression \in {"no_compression", "zlib", "lzma"} ->
              IF ~DecodesMagic(rec)
              THEN Break(rec, tell)
                   /\ UNCHANGED <<data_unpacked, inode_to_write_offset>>
              ELSE /\ data_unpacked' = TRUE
                   /\ RecordWriteOffset(rec, tell)
         [] rec.compression = "rtime" ->
              \* line 363 raises NameError before anything is decoded
              /\ RecordWriteOffset(rec, tell)
              /\ UNCHANGED data_unpacked
         [] rec.compression = "lzo" ->
              \* lines 393-396: whatever the call raises becomes the
              \* structural error
              /\ Raise(rec, tell, "UnpackParserException")
              /\ UNCHANGED <<data_unpacked, inode_to_write_offset>>
         [] OTHER ->
              /\ Break(rec, tell)
              /\ UNCHANGED <<data_unpacked, inode_to_write_offset>>

\* the content fragments the input may hold
RegularRecs ==
    { [NoRec EXCEPT !.kind = "inode", !.raw = "normal",
           !.inode_type = "inode", !.len_inode = RawInodeLen + csize,
           !.consumed = RawInodeLen + csize, !.inode_number = ino,
           !.file_mode = "regular", !.ofs_write = wo,
           !.compression = st[1], !.lzma_ok = st[2],
           !.header_crc_ok = st[3], !.compressed_size = csize,
           !.decompressed_size = dsize] :
        ino \in Inodes \ {0}, wo \in DataLens, csize \in DataLens,
        dsize \in DataLens,
        st \in {<<"no_compression", TRUE, TRUE>>, <<"zlib", TRUE, TRUE>>,
                <<"lzma", TRUE, TRUE>>, <<"lzma", FALSE, TRUE>>,
                <<"rtime", TRUE, TRUE>>, <<"lzo", TRUE, TRUE>>,
                <<"unknown", TRUE, TRUE>>,
                <<"no_compression", TRUE, FALSE>>} }

\* lines 227-234, 273-290, 306-407: an inode record of a regular file, of a
\* named inode or with a wrong header checksum
ReadInodeRegular ==
    /\ AtHeader
    /\ \E rec \in RegularRecs :
        /\ pos + rec.consumed <= size
        /\ ~HeaderCrcMatches(rec)
              \/ rec.inode_number \in DOMAIN inode_to_filename
        /\ IF ~HeaderCrcMatches(rec)
           THEN Break(rec, pos + rec.consumed) /\ UNCHANGED tables
           ELSE ParseRegular(rec, pos + rec.consumed)
    /\ prev_is_padding' = FALSE
    /\ UNCHANGED size

Next ==
    \/ ParseBegin
    \/ ReadEnd
    \/ ReadShort
    \/ ReadBadMagic
    \/ ReadEmpty
    \/ ReadUndecodable
    \/ ReadPadding
    \/ ReadDirty
    \/ ReadOther
    \/ ReadDirent
    \/ ReadInodeUnnamed
    \/ ReadInodeMeta
    \/ ReadInodeRegular

Spec == Init /\ [][Next]_vars

(***************************************************************************)
(* The write step of unpack(), lines 656-747, as a function of the         *)
(* fragment it is handed: the fragments of one regular file, one fragment  *)
(* per action, written to a file that is open and empty before the first.  *)
(* A fragment is chosen when it is read; its write offset is the one that  *)
(* passes the tests of lines 636-654.  The step is taken on its own: in    *)
(* unpack() as it stands line 645 uses FileResult, a name the module does  *)
(* not bind, so that the first fragment of a file raises NameError before  *)
(* line 656 is reached.                                                    *)
(***************************************************************************)
MaxFragments == 2
MaxBuf == 4
MaxDeclared == 3
MaxDecoded == 4

Bytes == {0, 1}

\* the payloads a fragment may carry: buf, compressedsize bytes long
Bufs == UNION { [1..n -> Bytes] : n \in 0..MaxBuf }

\* what a library decoder (zlib, LZMA, LZO) may return
DecoderOutputs == { [i \in 1..n |-> 0] : n \in 0..MaxDecoded }

\* Python indexing and slicing of a byte string, counted from 0
At(s, i) == s[i + 1]
SetAt(s, i, v) == [s EXCEPT ![i + 1] = v]
Slice(s, a, b) == SubSeq(s, a + 1, IF b < Len(s) THEN b ELSE Len(s))

\* how the decoding of a fragment ends: "ok" with the bytes to write, "break"
\* or the class of the exception raised
Outcome(class, data) == [class |-> class, data |-> data]

\* lines 685-688, 700-703: decoder output longer than decompressed_size is
\* cut to decompressed_size
Truncate(data, decompressed_size) ==
    IF Len(data) > decompressed_size
    THEN SubSeq(data, 1, decompressed_size)
    ELSE data

\* lines 729-733: copy repeat bytes one at a time from backoffs to outpos
RECURSIVE RtimeCopy(_, _, _, _)
RtimeCopy(data_out, outpos, backoffs, repeat) ==
    IF repeat = 0
    THEN [class |-> "ok", data_out |-> data_out, outpos |-> outpos]
    ELSE IF outpos >= Len(data_out)
    THEN [class |-> "IndexError", data_out |-> data_out, outpos |-> outpos]
    ELSE RtimeCopy(SetAt(data_out, outpos, At(data_out, backoffs)),
                   outpos + 1, backoffs + 1, repeat - 1)

\* lines 717-738: the loop of the rtime decoder.  buf[pos] raises IndexError
\* past the end of buf; the slice assignment of lines 735-738 replaces what
\* is left of data_out from outpos on, at most repeat bytes, by repeat bytes
RECURSIVE RtimeLoop(_, _, _, _, _, _)
RtimeLoop(b, decompressed_size, data_out, positions, outpos, p) ==
    IF outpos >= decompressed_size THEN Outcome("ok", data_out)
    ELSE IF p + 1 >= Len(b) THEN Outcome("IndexError", <<>>)
    ELSE
    LET value == At(b, p)
        repeat == At(b, p + 1)
        written == SetAt(data_out, outpos, value)
        o == outpos + 1
        backoffs == positions[value]
        marked == [positions EXCEPT ![value] = o]
    IN
    IF repeat = 0
    THEN RtimeLoop(b, decompressed_size, written, marked, o, p + 2)
    ELSE IF backoffs + repeat >= o
    THEN LET c == RtimeCopy(written, o, backoffs, repeat) IN
         IF c.class # "ok" THEN Outcome(c.class, <<>>)
         ELSE RtimeLoop(b, decompressed_size, c.data_out, marked,
                        c.outpos, p + 2)
    ELSE RtimeLoop(b, decompressed_size,
                   SubSeq(written, 1, o)
                       \o Slice(written, backoffs, backoffs + repeat)
                       \o SubSeq(written, o + repeat + 1, Len(written)),
                   marked, o + repeat, p + 2)

\* lines 704-738: the rtime decoder on a zeroed buffer of decompressed_size
\* bytes
Rtime(b, decompressed_size) ==
    RtimeLoop(b, decompressed_size, [i \in 1..decompressed_size |-> 0],
              [v \in Bytes |-> 0], 0, 0)

\* lines 677-743: the ways the decoding of a fragment may end.  What zlib,
\* LZMA and LZO make of a buf that holds bytes is not known: each returns
\* some bytes or raises; LZO is handed decompressed_size as the size of its
\* output buffer.  Of no bytes at all zlib.decompress makes an incomplete
\* stream and raises, and the raw LZMA decompressor returns no bytes
Codec(frag) ==
    CASE frag.compression_used = "no_compression" ->
             {Outcome("ok", frag.buf)}
      [] frag.compression_used = "zlib" ->
             {Outcome("zlib.error", <<>>)} \cup
             {Outcome("ok", Truncate(data, frag.decompressed_size)) :
                 data \in IF Len(frag.buf) = 0 THEN {} ELSE DecoderOutputs}
      [] frag.compression_used = "lzma" ->
             IF Len(frag.buf) = 0 THEN {Outcome("ok", <<>>)}
             ELSE
             {Outcome("LZMAError", <<>>)} \cup
             {Outcome("ok", Truncate(data, frag.decompressed_size)) :
                 data \in DecoderOutputs}
      [] frag.compression_used = "rtime" ->
             {Rtime(frag.buf, frag.decompressed_size)}
      [] frag.compression_used = "lzo" ->
             {Outcome("lzo.error", <<>>)} \cup
             {Outcome("ok", data) :
                 data \in {d \in DecoderOutputs :
                               Len(d) <= frag.decompressed_size}}
      [] OTHER -> {Outcome("break", <<>>)}

\* lines 758-760: every file in inode_to_open_files is closed
CloseAll(opened) == opened \ inode_to_open_files

\* lines 636-654 taken as passed for the first fragment of inode 2: its
\* file is open and nothing is written to it
InitCodec ==
    /\ StoreInit
    /\ PathInit
    /\ self_data = NoData
    /\ ExtraInit
    /\ pc = "fragment"
    /\ exc = NoException
    /\ size = PageSize + 8
    /\ pos = 0
    /\ cur_offset = 0
    /\ inode_to_filename = (RootInode :> <<>>) @@ (2 :> <<"a">>)
    /\ data_unpacked = FALSE
    /\ inodes_seen_version = {}
    /\ parent_inodes_seen = {RootInode}
    /\ inode_to_write_offset = EmptyMap
    /\ inode_to_open_files = {2}
    /\ current_inode = 2
    /\ prev_is_padding = FALSE
    /\ unpacked_size = size
    /\ outfile = <<>>
    /\ nrec = 0
    /\ last = NoNote
    /\ fragment = NoFragment
    /\ open_files = {2}

\* lines 656-747: one fragment of current_inode is decoded and written
WriteFragment ==
    /\ pc = "fragment"
    /\ nrec < MaxFragments
    /\ \E c \in Compressions, b \in Bufs, dsize \in 0..MaxDeclared :
        LET frag == [compression_used |-> c, buf |-> b,
                     decompressed_size |-> dsize,
                     writeoffset |->
                         IF current_inode \in DOMAIN inode_to_write_offset
                         THEN inode_to_write_offset[current_inode]
                         ELSE 0]
        IN
        \E out \in Codec(frag) :
            /\ fragment' = frag
            /\ nrec' = nrec + 1
            /\ CASE out.class = "ok" ->
                     /\ outfile' = outfile \o out.data
                     /\ inode_to_write_offset' =
                            (current_inode :>
                                (frag.writeoffset + frag.decompressed_size))
                            @@ inode_to_write_offset
                     /\ UNCHANGED <<pc, exc, open_files>>
                 [] out.class = "break" ->
                     \* lines 742-743, 758-760
                     /\ pc' = "unpacked"
                     /\ open_files' = CloseAll(open_files)
                     /\ UNCHANGED <<exc, outfile, inode_to_write_offset>>
                 [] OTHER ->
                     \* the exception leaves unpack() and nothing on its
                     \* way closes a file
                     /\ pc' = "fault"
                     /\ exc' = out.class
                     /\ UNCHANGED <<outfile, inode_to_write_offset,
                                    open_files>>
    /\ UNCHANGED <<size, pos, cur_offset, inode_to_filename, data_unpacked,
                   inodes_seen_version, parent_inodes_seen,
                   inode_to_open_files, current_inode, prev_is_padding,
                   unpacked_size, last, others>>

\* lines 434-436, 758-760: the end of the stream; the files are closed and
\* unpack() returns
EndOfStream ==
    /\ pc = "fragment"
    /\ pc' = "unpacked"
    /\ open_files' = CloseAll(open_files)
    /\ UNCHANGED <<exc, size, pos, cur_offset, inode_to_filename,
                   data_unpacked, inodes_seen_version, parent_inodes_seen,
                   inode_to_write_offset, inode_to_open_files, current_inode,
                   prev_is_padding, unpacked_size, outfile, nrec, last,
                   fragment, others>>

NextCodec ==
    \/ WriteFragment
    \/ EndOfStream

SpecCodec == InitCodec /\ [][NextCodec]_vars

(***************************************************************************)
(* The store of unpack_directory.py during one scan.  Every node has a     *)
(* task that owns it; the tasks of different nodes interleave freely.  The *)
(* task of a node draws children from unpack_files() and hands each to     *)
(* add_extracted_file() of the node, as the specification describes the    *)
(* scan engine, whose code is not part of the sources at hand.  Line 155   *)
(* of add_extracted_file() is a step of its own, lines 156-157 another.    *)
(***************************************************************************)
\* a parser that has done nothing, on a region of length bytes
ParserIdle(at, length) ==
    /\ pc = at
    /\ exc = NoException
    /\ size = length
    /\ pos = 0
    /\ cur_offset = 0
    /\ inode_to_filename = EmptyMap
    /\ data_unpacked = FALSE
    /\ inodes_seen_version = {}
    /\ parent_inodes_seen = {}
    /\ inode_to_write_offset = EmptyMap
    /\ inode_to_open_files = {}
    /\ current_inode = None
    /\ prev_is_padding = FALSE
    /\ unpacked_size = None
    /\ outfile = <<>>
    /\ nrec = 0
    /\ last = NoNote
    /\ fragment = NoFragment
    /\ open_files = {}

InitStore ==
    /\ StoreInit
    /\ PathInit
    /\ self_data = NoData
    /\ ExtraInit
    /\ ParserIdle("scan", 0)

\* lines 87-95: the info property reads info.pkl, {} if there is none
InfoGet(n) == IF info_pkl[n].exists THEN info_pkl[n].data ELSE EmptyInfo

\* lines 162-164: the extracted_files property
ExtractedFiles(n) == InfoGet(n).extracted_files

\* the first value a read of the info of n returned is kept
NoteRead(n) ==
    first_info' = IF first_info[n].read THEN first_info
                  ELSE [first_info EXCEPT
                           ![n] = [read |-> TRUE, data |-> InfoGet(n)]]

\* lines 97-102: the info setter replaces info.pkl by data
InfoSet(n, data) ==
    /\ info_pkl' = [info_pkl EXCEPT ![n] = [exists |-> TRUE, data |-> data]]
    /\ writes' = [writes EXCEPT ![n].info = @ + 1]

\* lines 60-67: the file_path setter keeps path in the object and replaces
\* the pathname file by it
FilePathSet(n, path) ==
    /\ _file_path' = [_file_path EXCEPT ![n]["init"] = path]
    /\ pathname' = [pathname EXCEPT ![n] = path]
    /\ writes' = [writes EXCEPT ![n].pathname = @ + 1]

\* the scan engine sets the path of the root and starts its task
StartScan ==
    /\ pc = "scan"
    /\ task[ROOT_PATH] = "new"
    /\ \E fn \in FilePaths : FilePathSet(ROOT_PATH, fn)
    /\ task' = [task EXCEPT ![ROOT_PATH] = "unpacking"]
    /\ UNCHANGED <<parserVars, pathVars, self_data, extraVars, info_pkl, info,
                   unpack_directory, first_info, creator>>

\* the scan engine writes the info of a node, its labels, before the node
\* has an edge
WriteInfo(n) ==
    /\ pc = "scan"
    /\ task[n] = "unpacking"
    /\ ~info_pkl[n].exists
    /\ InfoSet(n, [EmptyInfo EXCEPT !.labels = {"label"}])
    /\ UNCHANGED <<parserVars, pathVars, self_data, extraVars, pathname, _file_path,
                   task, info, unpack_directory, first_info, creator>>

\* line 22: a name that no node has yet; which one makes no difference
Uuid4 == CHOOSE u \in Uuids :
            /\ task[u] = "absent"
            /\ \A v \in Uuids : task[v] = "absent" => u <= v

\* lines 182-185: the parser of n yields a path fn; a node with a fresh
\* name is made, its path is set, and it is yielded to the task of n
unpack_files(n) ==
    /\ pc = "scan"
    /\ task[n] = "unpacking"
    /\ \E u \in Uuids : task[u] = "absent"
    /\ \E fn \in FilePaths :
        LET ud == Uuid4 IN
        /\ FilePathSet(ud, fn)
        /\ task' = [task EXCEPT ![ud] = "created", ![n] = "yielded"]
        /\ unpack_directory' = [unpack_directory EXCEPT ![n] = ud]
        /\ creator' = [creator EXCEPT ![ud] = n]
    /\ UNCHANGED <<parserVars, pathVars, self_data, extraVars, info_pkl, info,
                   first_info>>

\* line 155: info = self.info
add_extracted_file_read(n) ==
    /\ pc = "scan"
    /\ task[n] = "yielded"
    /\ info' = [info EXCEPT ![n] = InfoGet(n)]
    /\ NoteRead(n)
    /\ task' = [task EXCEPT ![n] = "read"]
    /\ UNCHANGED <<parserVars, pathVars, self_data, extraVars, pathname, info_pkl,
                   _file_path, unpack_directory, writes, creator>>

\* line 156: the edge is stored under the path of the child, taken from the
\* object that was yielded; an edge stored under that path before is
\* replaced
SetEdge(extracted_files, ud) ==
    (_file_path[ud]["init"] :> ud) @@ extracted_files

\* lines 156-157: the edge is put into info and info is written back
add_extracted_file_write(n) ==
    /\ pc = "scan"
    /\ task[n] = "read"
    /\ InfoSet(n, [info[n] EXCEPT
                      !.extracted_files = SetEdge(@, unpack_directory[n])])
    /\ task' = [task EXCEPT ![n] = "unpacking"]
    /\ unpack_directory' = [unpack_directory EXCEPT ![n] = None]
    /\ info' = [info EXCEPT ![n] = EmptyInfo]
    /\ UNCHANGED <<parserVars, pathVars, self_data, extraVars, pathname, _file_path,
                   first_info, creator>>

\* line 182: the parser of n yields nothing more
Finish(n) ==
    /\ pc = "scan"
    /\ task[n] = "unpacking"
    /\ task' = [task EXCEPT ![n] = "done"]
    /\ UNCHANGED <<parserVars, pathVars, self_data, extraVars, pathname, info_pkl,
                   _file_path, info, unpack_directory, writes, first_info,
                   creator>>

\* lines 27-34, 50-56: the task of a node that was yielded starts on an
\* object of its own, made by from_ud_path, and reads file_path through it;
\* the first read takes it from the pathname file
file_path(n) ==
    /\ pc = "scan"
    /\ task[n] = "created"
    /\ _file_path' = [_file_path EXCEPT
                         ![n]["from_ud_path"] =
                             IF @ = NoPath THEN pathname[n] ELSE @]
    /\ task' = [task EXCEPT ![n] = "unpacking"]
    /\ UNCHANGED <<parserVars, pathVars, self_data, extraVars, pathname, info_pkl, info,
                   unpack_directory, writes, first_info, creator>>

NextStore ==
    \/ StartScan
    \/ \E n \in UdPaths : WriteInfo(n)
    \/ \E n \in UdPaths : unpack_files(n)
    \/ \E n \in UdPaths : add_extracted_file_read(n)
    \/ \E n \in UdPaths : add_extracted_file_write(n)
    \/ \E n \in UdPaths : Finish(n)
    \/ \E n \in UdPaths : file_path(n)

SpecStore == InitStore /\ [][NextStore]_vars

(***************************************************************************)
(* unpacked_path(), write_file() and mkdir() of the UnpackDirectory of the *)
(* root, called with logical paths in any order.                           *)
(***************************************************************************)
MaxCalls == 2

InitPath ==
    /\ StoreInit
    /\ PathInit
    /\ self_data = NoData
    /\ ExtraInit
    /\ ParserIdle("paths", 0)

\* lines 104-112: the path relative to unpack_root; pathlib joins the names
\* and leaves ".." as it is
unpacked_path(ud, path) ==
    <<DirName(ud),
      IF path.absolute THEN ABS_UNPACK_DIR ELSE REL_UNPACK_DIR>> \o path.parts

\* the directory above a location; above unpack_root it is outside the store
Up(loc) ==
    IF loc = <<>> \/ loc[Len(loc)] = ".."
    THEN Append(loc, "..")
    ELSE SubSeq(loc, 1, Len(loc) - 1)

\* mkdir(parents=True, exist_ok=True) on the names comps below loc: every
\* name on the way is made a directory unless it is one; a name that is a
\* file raises
RECURSIVE MkdirParents(_, _, _)
MkdirParents(d, loc, comps) ==
    IF comps = <<>> THEN [ok |-> TRUE, dirs |-> d, loc |-> loc]
    ELSE LET to == IF Head(comps) = ".." THEN Up(loc)
                   ELSE Append(loc, Head(comps))
         IN IF to \in files THEN [ok |-> FALSE, dirs |-> d, loc |-> to]
            ELSE MkdirParents(d \cup {to}, to, Tail(comps))

\* a call that returned, and the location it wrote or made
Returned(op, path, loc) ==
    [op |-> op, path |-> path, ok |-> TRUE, location |-> loc]

\* a call that raised
Raised(op, path) ==
    [op |-> op, path |-> path, ok |-> FALSE, location |-> NoLocation]

\* lines 114-123: the directory of the file is made, then the file is
\* opened for writing where the operating system finds it; opening a
\* directory raises
write_file(ud, path) ==
    /\ pc = "paths"
    /\ Cardinality(resolved) < MaxCalls
    /\ LET full_path == unpacked_path(ud, path)
           parent == MkdirParents(dirs, <<>>,
                                  SubSeq(full_path, 1, Len(full_path) - 1))
           name == full_path[Len(full_path)]
           to == IF name = ".." THEN Up(parent.loc)
                 ELSE Append(parent.loc, name)
       IN /\ dirs' = parent.dirs
          /\ IF parent.ok /\ to \notin parent.dirs
             THEN /\ files' = files \cup {to}
                  /\ returned' = full_path
                  /\ resolved' =
                         resolved \cup {Returned("write_file", path, to)}
             ELSE /\ resolved' = resolved \cup {Raised("write_file", path)}
                  /\ UNCHANGED <<files, returned>>
    /\ UNCHANGED <<parserVars, storeVars, self_data, extraVars>>

\* lines 125-132: the directory and those above it are made
mkdir(ud, path) ==
    /\ pc = "paths"
    /\ Cardinality(resolved) < MaxCalls
    /\ LET full_path == unpacked_path(ud, path)
           made == MkdirParents(dirs, <<>>, full_path)
       IN /\ dirs' = made.dirs
          /\ IF made.ok
             THEN /\ returned' = full_path
                  /\ resolved' =
                         resolved \cup {Returned("mkdir", path, made.loc)}
             ELSE /\ resolved' = resolved \cup {Raised("mkdir", path)}
                  /\ UNCHANGED returned
    /\ UNCHANGED <<parserVars, storeVars, self_data, extraVars, files>>

NextPath ==
    \/ \E path \in LogicalPaths : write_file(ROOT_PATH, path)
    \/ \E path \in LogicalPaths : mkdir(ROOT_PATH, path)

SpecPath == InitPath /\ [][NextPath]_vars

(***************************************************************************)
(* parse() and calculate_unpacked_size() of the ELF, GPT, 7z and NIB       *)
(* parsers, each on a region of size bytes whose header is chosen when it  *)
(* is decoded.  The Kaitai readers the parsers call are not part of the    *)
(* sources at hand; of them the model takes that reading bytes that reach  *)
(* past the end of the region raises and that nothing else does, which is  *)
(* what the specification says of reads.  Offsets and lengths are counted  *)
(* in a unit of the model's choosing.                                      *)
(***************************************************************************)
MaxRegion == 3
MaxField == 4

RegionSizes == 1..MaxRegion
Fields == 0..MaxField

Max(a, b) == IF a >= b THEN a ELSE b

\* a read of len bytes at ofs stays within the region
Readable(ofs, len) == ofs + len <= size

InitSize ==
    /\ StoreInit
    /\ PathInit
    /\ self_data = NoData
    /\ ExtraInit
    /\ \E region \in RegionSizes : ParserIdle("region", region)

\* what is left alone by a parser that sets pc, exc, unpacked_size and
\* self.data
SizeFrame ==
    UNCHANGED <<size, pos, cur_offset, inode_to_filename, data_unpacked,
                inodes_seen_version, parent_inodes_seen,
                inode_to_write_offset, inode_to_open_files, current_inode,
                prev_is_padding, outfile, nrec, last, fragment, open_files,
                storeVars, pathVars, extraVars>>

\* parse() returns with unpacked_size set
Parsed(d, usize) ==
    /\ pc' = "parsed"
    /\ self_data' = d
    /\ unpacked_size' = usize
    /\ UNCHANGED exc

\* parse() raises UnpackParserException
Failed(d) ==
    /\ pc' = "failed"
    /\ exc' = "UnpackParserException"
    /\ self_data' = d
    /\ UNCHANGED unpacked_size

\* the ELF files of the model: a program header table of at most one
\* entry, a section header table of at most one entry
ElfSectionTypes == {"nobits", "strtab", "progbits"}

ElfFiles ==
    [format : {"elf"},
     program_header_offset : Fields,
     qty_program_header : 0..1,
     offset : Fields, filesz : Fields,
     section_header_offset : Fields,
     qty_section_header : 0..1,
     section_header_entry_size : {1},
     type : ElfSectionTypes,
     ofs_body : Fields, len_body : Fields]

\* elf/UnpackParser.py lines 104-107: the end of the program headers'
\* segments; the segments themselves are not read
ElfProgramEnd(d) ==
    IF d.qty_program_header = 0 THEN d.program_header_offset
    ELSE Max(d.program_header_offset, d.offset + d.filesz)

\* lines 113-119: the end of the section header table and of the bodies of
\* the sections that are not nobits
ElfSectionEnd(d) ==
    LET table == d.section_header_offset
                     + d.qty_section_header * d.section_header_entry_size
    IN IF d.qty_section_header = 0 \/ d.type = "nobits" THEN table
       ELSE Max(table, d.ofs_body + d.len_body)

\* lines 106, 116, 124-129: the reads parse() forces: the two header
\* tables, and the body of a section of a type whose entries it walks
ElfReadsFit(d) ==
    /\ Readable(d.program_header_offset, d.qty_program_header)
    /\ Readable(d.section_header_offset,
                d.qty_section_header * d.section_header_entry_size)
    /\ (d.qty_section_header = 1 /\ d.type = "strtab")
           => Readable(d.ofs_body, d.len_body)

\* elf/UnpackParser.py lines 97-182: parse(); calculate_unpacked_size() is
\* empty.  names_ok: the reads of lines 132 and 174 succeed
ElfParseOf(elf_files) ==
    /\ pc = "region"
    /\ \E d \in elf_files, names_ok \in BOOLEAN :
          IF ElfReadsFit(d) /\ names_ok
          THEN Parsed(d, Max(ElfProgramEnd(d), ElfSectionEnd(d)))
          ELSE Failed(d)
    /\ SizeFrame

ElfParse == ElfParseOf(ElfFiles)

\* the GPT headers of the model, with one partition entry
GptTables ==
    [format : {"gpt"},
     sector_size : {1, 2},
     backup_lba : 0..2,
     entries_start : 0..2,
     entries_size : {1},
     entries_count : {1},
     first_lba : 0..2, last_lba : 0..2]

\* gpt_partition_table/UnpackParser.py lines 35-42: the header and the
\* entries are decoded
GptParse ==
    /\ pc = "region"
    /\ \E d \in GptTables :
          IF /\ Readable(d.sector_size, 1)
             /\ Readable(d.entries_start * d.sector_size,
                         d.entries_size * d.entries_count)
          THEN /\ pc' = "calculate"
               /\ self_data' = d
               /\ UNCHANGED <<exc, unpacked_size>>
          ELSE Failed(d)
    /\ SizeFrame

\* lines 44-71: calculate_unpacked_size(); the loop of lines 65-69 changes
\* nothing
GptCalculate ==
    /\ pc = "calculate"
    /\ LET all_entries_size == self_data.entries_size * self_data.entries_count
           usize == Max((self_data.backup_lba + 1) * self_data.sector_size,
                        self_data.entries_start * self_data.sector_size
                            + all_entries_size)
       IN /\ unpacked_size' = usize
          /\ exc' = check_condition(usize <= size)
          /\ pc' = IF usize <= size THEN "parsed" ELSE "failed"
          /\ UNCHANGED self_data
    /\ SizeFrame

\* the 7z start headers of the model
SevenzipHeaders ==
    [format : {"7z"}, ofs_next_header : Fields, len_next_header : Fields,
     crc_ok : BOOLEAN]

\* the length of the signature header, line 67, in the unit of the model
SevenzipHeaderLen == 1

\* 7z/UnpackParser.py lines 52-79: parse(); line 56 reads the next header,
\* which lies ofs_next_header after the signature header;
\* calculate_unpacked_size() is empty.  which: shutil.which('7z') finds
\* the program
SevenzipParseOf(headers) ==
    /\ pc = "region"
    /\ \E d \in headers, which \in BOOLEAN :
          IF /\ which
             /\ Readable(0, SevenzipHeaderLen)
             /\ Readable(SevenzipHeaderLen + d.ofs_next_header,
                         d.len_next_header)
             /\ d.crc_ok
          THEN Parsed(d, SevenzipHeaderLen + d.ofs_next_header
                            + d.len_next_header)
          ELSE Failed(d)
    /\ SizeFrame

SevenzipParse == SevenzipParseOf(SevenzipHeaders)

\* the offsets at which the reads of the keys, the values and the class
\* names of a NIB archive ended
NibArchives ==
    [format : {"nib"}, keys_end : Fields, values_end : Fields,
     class_names_end : Fields]

\* nib/UnpackParser.py lines 36-55: parse(); calculate_unpacked_size() is
\* empty
NibParseOf(archives) ==
    /\ pc = "region"
    /\ \E d \in archives :
          IF /\ Readable(d.keys_end, 0)
             /\ Readable(d.values_end, 0)
             /\ Readable(d.class_names_end, 0)
          THEN Parsed(d, Max(Max(Max(0, d.keys_end), d.values_end),
                             d.class_names_end))
          ELSE Failed(d)
    /\ SizeFrame

NibParse == NibParseOf(NibArchives)

NextSize ==
    \/ ElfParse
    \/ GptParse
    \/ GptCalculate
    \/ SevenzipParse
    \/ NibParse

SpecSize == InitSize /\ [][NextSize]_vars

(***************************************************************************)
(* The size property of the UnpackDirectory of the root, read any number   *)
(* of times while the file it stands for is replaced or removed.           *)
(***************************************************************************)
InitHandle ==
    /\ StoreInit
    /\ PathInit
    /\ self_data = NoData
    /\ HandleInit
    /\ LifeInit
    /\ WalkIdle
    /\ ScanIdle
    /\ ParserIdle("handle", 0)

\* what the body of the size property evaluates to when it has run through
\* its last statement, line 85, an assignment: Python's None
SizeReturn(cached) == None

\* lines 78-85: with _size None, the file at abs_file_path is stat'ed and
\* its st_size kept in _size; stat raises when there is no file
size_property ==
    /\ pc = "handle"
    /\ IF _size # None
       THEN /\ size_result' = Gave(SizeReturn(_size))
            /\ UNCHANGED _size
       ELSE IF st_size = None
       THEN /\ size_result' = RaisedError
            /\ UNCHANGED _size
       ELSE /\ _size' = st_size
            /\ size_result' = Gave(SizeReturn(st_size))
    /\ UNCHANGED <<parserVars, storeVars, pathVars, self_data, lifeVars,
                   walkVars, scanVars, st_size>>

\* line 85 reads the file system: the file is replaced by one of another
\* size, or removed
FileChanges ==
    /\ pc = "handle"
    /\ st_size' \in (0..MaxStat \cup {None}) \ {st_size}
    /\ UNCHANGED <<parserVars, storeVars, pathVars, self_data, lifeVars,
                   walkVars, scanVars, _size, size_result>>

NextHandle ==
    \/ size_property
    \/ FileChanges

SpecHandle == InitHandle /\ [][NextHandle]_vars

(***************************************************************************)
(* One parser in the hands of its caller, as test_parser.py drives it:     *)
(* parse_from_offset(), write_info(md), then unpack(md) until it is        *)
(* exhausted.  The parsers are those of ELF, NIB, SELinux file contexts    *)
(* and WAV.                                                                *)
(***************************************************************************)
ElfLifeFiles ==
    [format : {"elf"},
     program_header_offset : {0},
     qty_program_header : {0},
     offset : {0}, filesz : {0},
     section_header_offset : 0..1,
     qty_section_header : 0..1,
     section_header_entry_size : {1},
     type : ElfSectionTypes,
     ofs_body : 0..1, len_body : 0..1]

NibLifeArchives ==
    [format : {"nib"}, keys_end : 0..1, values_end : 0..1,
     class_names_end : 0..1]

\* a file of SELinux file contexts: where its decoding ended, and whether
\* the decoder accepted it
SelinuxFiles == [format : {"selinux"}, end : Fields, valid : BOOLEAN]

WavFiles == [format : {"wav"}, end : Fields, valid : BOOLEAN]

\* test_parser.py lines 12-14: a parser over a region, and a meta directory
InitLife ==
    /\ StoreInit
    /\ PathInit
    /\ self_data = NoData
    /\ HandleIdle
    /\ LifeInit
    /\ WalkIdle
    /\ ScanIdle
    /\ \E region \in RegionSizes : ParserIdle("region", region)

\* test_parser.py line 13, on a parser of ELF and of NIB
ElfLifeParse == ElfParseOf(ElfLifeFiles) /\ UNCHANGED lifeVars

NibLifeParse == NibParseOf(NibLifeArchives) /\ UNCHANGED lifeVars

\* selinux/file_context/UnpackParser.py lines 36-40: parse(); the class
\* computes no size, the size is the offset the decoder ended at
SelinuxParse ==
    /\ pc = "region"
    /\ \E d \in SelinuxFiles :
          IF d.valid /\ Readable(0, d.end)
          THEN Parsed(d, d.end)
          ELSE Failed(d)
    /\ SizeFrame

\* the parser of WAV, which test_parser.py line 13 runs
WavParse ==
    /\ pc = "region"
    /\ \E d \in WavFiles :
          IF d.valid /\ Readable(0, d.end)
          THEN Parsed(d, d.end)
          ELSE Failed(d)
    /\ SizeFrame

\* elf/UnpackParser.py lines 216, 697-703: the labels of an ELF file; nib
\* line 57 and selinux line 42: the labels of the class
Labels(d, elf_kind) ==
    CASE d.format = "elf" -> {"elf", elf_kind}
      [] d.format = "nib" -> {"nibarchive", "resource"}
      [] d.format = "selinux" -> {"selinux", "resource"}
      [] OTHER -> {"wav", "audio"}

\* the state of the parser that write_info() may be called in
WriteInfoAnywhere == {"region", "parsed"}

WriteInfoAt == {"parsed"}

\* test_parser.py line 15, elf/UnpackParser.py lines 210-212: write_info()
\* computes the labels from self.data and leaves them in the meta directory
write_info ==
    /\ pc \in WriteInfoAt
    /\ pc' = "labeled"
    /\ \E elf_kind \in {"dynamic", "core", "static"} :
          md_info' = [written |-> TRUE, labels |-> Labels(self_data, elf_kind)]
    /\ UNCHANGED <<exc, size, pos, cur_offset, inode_to_filename,
                   data_unpacked, inodes_seen_version, parent_inodes_seen,
                   inode_to_write_offset, inode_to_open_files, current_inode,
                   prev_is_padding, unpacked_size, outfile, nrec, last,
                   fragment, open_files, storeVars, pathVars, self_data,
                   handleVars, walkVars, scanVars, unpacked_files,
                   section_at>>

\* what stays as it is while unpack() runs
UnpackFrame ==
    UNCHANGED <<exc, size, pos, cur_offset, inode_to_filename,
                data_unpacked, inodes_seen_version, parent_inodes_seen,
                inode_to_write_offset, inode_to_open_files, current_inode,
                prev_is_padding, unpacked_size, outfile, nrec, last,
                fragment, open_files, storeVars, pathVars, self_data,
                handleVars, walkVars, scanVars, md_info>>

\* test_parser.py line 16, elf/UnpackParser.py lines 183-208: unpack() of
\* ELF runs to its next yield, which follows the writing of a progbits
\* section of an interesting name, or to its end
ElfUnpack ==
    /\ pc \in {"labeled", "unpacking"}
    /\ self_data.format = "elf"
    /\ \E interesting \in BOOLEAN :
          IF /\ section_at < self_data.qty_section_header
             /\ self_data.type = "progbits"
             /\ interesting
          THEN /\ unpacked_files' = unpacked_files \cup {section_at}
               /\ section_at' = section_at + 1
               /\ pc' = "unpacking"
          ELSE /\ section_at' = self_data.qty_section_header
               /\ pc' = "unpacked"
               /\ UNCHANGED unpacked_files
    /\ UnpackFrame

\* what unpack() of the base class adds to unpacked_files
BaseUnpackYields(unpacked) == unpacked \cup {0}

BaseUnpacked(unpacked) == unpacked

\* test_parser.py line 16 on a class that defines no unpack(): the one of
\* the base class yields nothing
BaseUnpack ==
    /\ pc = "labeled"
    /\ self_data.format # "elf"
    /\ unpacked_files' = BaseUnpacked(unpacked_files)
    /\ pc' = "unpacked"
    /\ UNCHANGED section_at
    /\ UnpackFrame

NextLife ==
    \/ ElfLifeParse
    \/ NibLifeParse
    \/ SelinuxParse
    \/ WavParse
    \/ write_info
    \/ ElfUnpack
    \/ BaseUnpack

SpecLife == InitLife /\ [][NextLife]_vars

(***************************************************************************)
(* parse() and then unpack() over one file.  The file is a sequence of     *)
(* records, each lying where parse() leaves the cursor after the record    *)
(* before it; parse() reads them with the actions above, unpack() reads    *)
(* what lies at its own cursor.                                            *)
(***************************************************************************)
MaxTurns == 4

WalkSize == PageSize + 120

\* the records of the files of the model
WalkDirents ==
    { r \in DirentRecs :
        /\ r.inode_version = 1 /\ r.header_crc_ok /\ r.name_ok
        /\ \/ r.inode_number = 2 /\ r.len_inode # 0
              /\ (r.parent_inode = RootInode
                     \/ (r.parent_inode = 2 /\ r.name_crc_ok))
           \/ r.inode_number = 0 /\ r.parent_inode = RootInode
              /\ r.name_crc_ok /\ r.len_inode = 0 }

WalkInodes ==
    { r \in MetaRecs :
        /\ r.header_crc_ok /\ r.link_ok
        /\ \/ r.file_mode = "directory" /\ r.inode_number = RootInode
              /\ r.len_inode # 0
           \/ r.file_mode = "directory" /\ r.inode_number = 2
              /\ r.len_inode = RawInodeLen
           \/ r.file_mode = "link" /\ r.inode_number = RootInode
              /\ r.len_inode = RawInodeLen }

WalkRecs ==
    WalkDirents \cup WalkInodes
    \cup { [NoRec EXCEPT !.kind = "inode", !.raw = "normal",
               !.inode_type = "inode", !.len_inode = RawInodeLen,
               !.consumed = RawInodeLen, !.inode_number = 2] }
    \cup { [NoRec EXCEPT !.raw = "normal", !.kind = "padding",
               !.inode_type = "zero", !.consumed = HeaderLen,
               !.header_crc_ok = crc, !.zero_fill = TRUE] :
            crc \in BOOLEAN }
    \cup { [NoRec EXCEPT !.kind = "dirty", !.raw = "dirty",
               !.inode_type = "other", !.len_inode = declared,
               !.consumed = HeaderLen] :
            declared \in DeclaredLens(HeaderLen) }
    \cup { [NoRec EXCEPT !.kind = "other", !.raw = "normal",
               !.inode_type = "other", !.len_inode = HeaderLen,
               !.consumed = HeaderLen] }
    \cup { [NoRec EXCEPT !.kind = "empty", !.raw = "ffff"] }

\* lines 167, 189-199, 205-210, 244-250, 297, 403-407: where parse() leaves
\* the cursor after a record at off that does not end the stream
Advance(rec, off) ==
    CASE rec.kind = "empty" -> off + 4
      [] rec.kind = "padding" ->
            IF (off + 4) % PageSize # 0
            THEN off + rec.consumed + (PageSize - ((off + 4) % PageSize))
            ELSE off + rec.consumed
      [] rec.kind \in {"dirent", "inode"} /\ rec.inode_number = 0 ->
            Align4(off + rec.len_inode)
      [] rec.kind = "inode" /\ rec.file_mode = "directory" ->
            off + rec.len_inode
      [] OTHER -> Align4(off + rec.consumed)

RECURSIVE Offset(_, _)
Offset(recs, i) ==
    IF i = 1 THEN 0 ELSE Advance(recs[i - 1], Offset(recs, i - 1))

\* the file that holds the records recs
Place(recs) == [i \in DOMAIN recs |-> Note(recs[i], Offset(recs, i))]

\* what unpack() may find in the bytes 4..11 of a padding record, which
\* parse() decodes as the length and the checksum and does not look at:
\* zero bytes, the header of a dirty directory entry of length 0, or bytes
\* that are no node type
Slacks == {"zeros", "dirty", "junk"}

InitWalk ==
    /\ StoreInit
    /\ PathInit
    /\ self_data = NoData
    /\ HandleIdle
    /\ LifeInit
    /\ ScanIdle
    /\ ParserIdle("start", WalkSize)
    /\ \E n \in 1..MaxRecords : \E recs \in [1..n -> WalkRecs] :
          /\ stream = Place(recs)
          /\ slack \in IF \E i \in 1..n : recs[i].kind = "padding"
                        THEN Slacks ELSE {"zeros"}
    /\ turns = 0
    /\ visited = {}
    /\ materialized = {}

\* the record parse() reads is the next one of the file
Matches ==
    nrec' # nrec => (nrec' \in DOMAIN stream /\ last' = stream[nrec'])

\* lines 90-412: a step of parse() on the file
WalkParse == Next /\ Matches

\* what stays as it is while unpack() runs
WalkFrame ==
    UNCHANGED <<size, unpacked_size, data_unpacked, inodes_seen_version,
                outfile, nrec, last, fragment, open_files, storeVars,
                pathVars, self_data, handleVars, lifeVars, scanVars, stream,
                slack>>

\* lines 416-430: unpack() sets up its tables and rewinds
UnpackBegin ==
    /\ pc = "parsed"
    /\ pc' = "walk"
    /\ pos' = 0
    /\ inode_to_filename' = (RootInode :> <<>>)
    /\ parent_inodes_seen' = {}
    /\ inode_to_write_offset' = EmptyMap
    /\ inode_to_open_files' = {}
    /\ current_inode' = None
    /\ prev_is_padding' = FALSE
    /\ UNCHANGED <<exc, cur_offset, turns, visited, materialized>>
    /\ WalkFrame

\* the header of 8 zero bytes
ZeroHeader ==
    [NoRec EXCEPT !.kind = "padding", !.raw = "dirty", !.inode_type = "zero"]

SlackHeader ==
    CASE slack = "zeros" -> ZeroHeader
      [] slack = "dirty" ->
            [NoRec EXCEPT !.kind = "dirty", !.raw = "dirty",
                   !.inode_type = "dirent"]
      [] OTHER ->
            [NoRec EXCEPT !.kind = "unknown_type", !.raw = "bad",
                   !.inode_type = "unknown"]

\* bytes the model does not know
Astray == [NoRec EXCEPT !.kind = "astray"]

\* p is 4 bytes into a padding record
InSlack(p) ==
    \E i \in DOMAIN stream :
        stream[i].kind = "padding" /\ p = stream[i].off + 4

\* p lies in the zero bytes parse() found behind a padding record, lines
\* 191-193
InFill(p) ==
    \E i \in DOMAIN stream :
        /\ i + 1 \in DOMAIN stream
        /\ stream[i].kind = "padding"
        /\ stream[i].off + HeaderLen <= p
        /\ p < stream[i + 1].off

\* lines 437-482: the magic, the node type and the length unpack() reads at
\* offset p of the file
HeaderAt(p) ==
    IF \E i \in DOMAIN stream : stream[i].off = p
    THEN stream[CHOOSE i \in DOMAIN stream : stream[i].off = p]
    ELSE IF InSlack(p) THEN SlackHeader
    ELSE IF InFill(p) THEN ZeroHeader
    ELSE Astray

\* unpack() is at the head of its loop, line 432
AtTurn == pc = "walk" /\ turns < MaxTurns

\* an iteration of the loop of unpack() that read a header: it goes on at
\* tell, or ends the loop with a break or with an exception
Turn(at, tell, pad, class) ==
    /\ pc' = at
    /\ exc' = class
    /\ cur_offset' = pos
    /\ pos' = tell
    /\ prev_is_padding' = pad
    /\ turns' = turns + 1
    /\ visited' = visited \cup {pos}
    /\ UNCHANGED <<inode_to_filename, inode_to_write_offset,
                   inode_to_open_files, current_inode>>
    /\ WalkFrame

\* lines 435-439, 758-760: the cursor is at unpacked_size, or fewer than two
\* bytes are left: the loop ends and unpack() returns
UnpackStop ==
    /\ AtTurn
    /\ pos = unpacked_size \/ pos + 2 > size
    /\ pc' = "returned"
    /\ cur_offset' = pos
    /\ turns' = turns + 1
    /\ UNCHANGED <<exc, pos, prev_is_padding, visited, materialized,
                   inode_to_filename, parent_inodes_seen,
                   inode_to_write_offset, inode_to_open_files, current_inode>>
    /\ WalkFrame

\* the cursor is at a header
AtRecord == AtTurn /\ pos # unpacked_size /\ pos + 2 <= size

\* lines 444-450: empty space; the two bytes after 0xffff are 0xffff in a
\* record parse() went past
UnpackEmpty ==
    /\ AtRecord
    /\ HeaderAt(pos).raw = "ffff"
    /\ Turn("walk", pos + 4, prev_is_padding, exc)
    /\ UNCHANGED <<parent_inodes_seen, materialized>>

\* lines 455-476: a node type that is none of VALID_INODES: 0 is padding up
\* to the next page, read from 4 bytes into the record; anything else ends
\* the loop
UnpackPadding ==
    /\ AtRecord
    /\ LET h == HeaderAt(pos)
           ofs == pos + 4
           bytes_to_read == PageSize - ((pos + 4) % PageSize)
           \* the bytes from ofs to the page boundary: the 8 bytes after the
           \* node type, then what parse() found to be zero
           zero == /\ h.zero_fill
                   /\ slack = "zeros"
                   /\ \E i \in DOMAIN stream : stream[i].off = pos
       IN
       /\ h.raw # "ffff"
       /\ h.inode_type \in {"zero", "unknown"}
       /\ IF h.inode_type # "zero" \/ prev_is_padding
          THEN Turn("returned", ofs, prev_is_padding, exc)
          ELSE IF (pos + 4) % PageSize # 0
          THEN IF zero /\ ofs + bytes_to_read <= size
               THEN Turn("walk", ofs + bytes_to_read, TRUE, exc)
               ELSE Turn("returned", ofs, prev_is_padding, exc)
          ELSE Turn("walk", ofs, TRUE, exc)
    /\ UNCHANGED <<parent_inodes_seen, materialized>>

\* the node type is one of VALID_INODES
ValidType(h) == h.inode_type \in {"dirent", "inode", "other"}

\* lines 478-492: a dirty node is skipped by its declared length, 4-byte
\* aligned
UnpackDirty ==
    /\ AtRecord
    /\ LET h == HeaderAt(pos) IN
       /\ h.raw = "dirty"
       /\ ValidType(h)
       /\ Turn("walk", Align4(pos + h.len_inode), FALSE, exc)
    /\ UNCHANGED <<parent_inodes_seen, materialized>>

\* lines 498-514: a directory entry; line 514 reads jffs2_inode, a name
\* unpack() does not bind
UnpackDirent ==
    /\ AtRecord
    /\ LET h == HeaderAt(pos) IN
       /\ h.raw \in {"normal", "bad"}
       /\ h.inode_type = "dirent"
       /\ parent_inodes_seen' = parent_inodes_seen \cup {h.parent_inode}
       /\ Turn("raised", pos + HeaderLen + 12, FALSE, "NameError")
    /\ UNCHANGED materialized

\* lines 566-623: an inode record; one without a file name ends the loop, a
\* directory is made and skipped by its declared length, a symbolic link
\* is made and line 622 reads FileResult, a name the module does not bind;
\* any other mode falls through to lines 752-756
UnpackInode ==
    /\ AtRecord
    /\ LET h == HeaderAt(pos) IN
       /\ h.raw \in {"normal", "bad"}
       /\ h.inode_type = "inode"
       /\ IF h.inode_number \notin DOMAIN inode_to_filename
          THEN /\ Turn("returned", pos + HeaderLen + 4, FALSE, exc)
               /\ UNCHANGED materialized
          ELSE IF h.inode_number = 0
          THEN /\ Turn("walk", Align4(pos + h.len_inode), FALSE, exc)
               /\ UNCHANGED materialized
          ELSE CASE h.file_mode = "directory" ->
                    /\ Turn("walk", pos + h.len_inode, FALSE, exc)
                    /\ materialized' = materialized \cup {h.inode_number}
                 [] h.file_mode = "link" ->
                    /\ Turn("raised", pos + h.consumed, FALSE, "NameError")
                    /\ materialized' = materialized \cup {h.inode_number}
                 [] OTHER ->
                    /\ Turn("walk", Align4(pos + h.len_inode), FALSE, exc)
                    /\ UNCHANGED materialized
    /\ UNCHANGED parent_inodes_seen

\* lines 478-495, 752-756: any other node of VALID_INODES is skipped by its
\* declared length, 4-byte aligned
UnpackOther ==
    /\ AtRecord
    /\ LET h == HeaderAt(pos) IN
       /\ h.raw \in {"normal", "bad"}
       /\ h.inode_type = "other"
       /\ Turn("walk", Align4(pos + h.len_inode), FALSE, exc)
    /\ UNCHANGED <<parent_inodes_seen, materialized>>

\* the cursor of unpack() is on bytes that parse() read as no header
UnpackAstray ==
    /\ AtRecord
    /\ HeaderAt(pos).kind = "astray"
    /\ Turn("astray", pos, prev_is_padding, exc)
    /\ UNCHANGED <<parent_inodes_seen, materialized>>

NextWalk ==
    \/ WalkParse
    \/ UnpackBegin
    \/ UnpackStop
    \/ UnpackEmpty
    \/ UnpackPadding
    \/ UnpackDirty
    \/ UnpackDirent
    \/ UnpackInode
    \/ UnpackOther
    \/ UnpackAstray

SpecWalk == InitWalk /\ [][NextWalk]_vars

\* an iteration of the record loop of unpack()
UnpackStep ==
    \/ UnpackStop
    \/ UnpackEmpty
    \/ UnpackPadding
    \/ UnpackDirty
    \/ UnpackDirent
    \/ UnpackInode
    \/ UnpackOther
    \/ UnpackAstray

\* unpack(), once it is called, runs on until it returns or raises
SpecWalkFair == SpecWalk /\ WF_vars(UnpackStep)

(***************************************************************************)
(* The scan of one byte region and of the children extracted from it, as   *)
(* section 4.3 of the specification describes it; the engine is not part   *)
(* of the sources at hand.  The candidates it tries are the ELF and 7z     *)
(* parsers above, each on the bytes from the cursor to the end of the      *)
(* region.  A claimed region is taken to be at least one unit long, and    *)
(* a claimed region yields at most one child.                              *)
(***************************************************************************)
MaxScan == 3
MaxDepth == 2
ByteBudget == 6
MaxCandidates == 2

\* the ELF files tried by the scan: one program header whose segment ends
\* at filesz, no sections
ScanElfFiles ==
    { [format |-> "elf",
       program_header_offset |-> 0, qty_program_header |-> 1,
       offset |-> 0, filesz |-> filesz,
       section_header_offset |-> 0, qty_section_header |-> 0,
       section_header_entry_size |-> 1, type |-> "nobits",
       ofs_body |-> 0, len_body |-> 0] : filesz \in 1..MaxField }

\* the 7z start headers tried by the scan
ScanSevenzipHeaders ==
    [format : {"7z"}, ofs_next_header : 0..1, len_next_header : 0..1,
     crc_ok : BOOLEAN]

InitScan ==
    /\ StoreInit
    /\ PathInit
    /\ self_data = NoData
    /\ HandleIdle
    /\ LifeInit
    /\ WalkIdle
    /\ ParserIdle("scan", 0)
    /\ \E n \in 1..MaxScan :
          /\ scan_region = [depth |-> 0, len |-> n]
          /\ processed = n
    /\ scan_cursor = 0
    /\ span_start = 0
    /\ tried = 0
    /\ scan_nodes = {}
    /\ queue = <<>>
    /\ hit_at = {}

\* what a step of the engine leaves alone
ScanFrame ==
    UNCHANGED <<pos, cur_offset, inode_to_filename, data_unpacked,
                inodes_seen_version, parent_inodes_seen,
                inode_to_write_offset, inode_to_open_files, current_inode,
                prev_is_padding, outfile, nrec, last, fragment, open_files,
                storeVars, pathVars, handleVars, lifeVars, walkVars>>

\* the parser instance is dropped
ParserGone ==
    /\ exc' = NoException
    /\ size' = 0
    /\ unpacked_size' = None
    /\ self_data' = NoData

\* step 2: no signature at the cursor, or no candidate reached PARSED: the
\* scan goes on at the next offset
NextOffset ==
    /\ pc = "scan"
    /\ scan_cursor < scan_region.len
    /\ scan_cursor' = scan_cursor + 1
    /\ tried' = 0
    /\ UNCHANGED <<pc, exc, size, unpacked_size, self_data, scan_region,
                   span_start, scan_nodes, queue, processed, hit_at>>
    /\ ScanFrame

\* steps 1 and 2: a signature hits at the cursor and the next candidate of
\* the index is given the bytes from the cursor to the end of the region
Candidate ==
    /\ pc = "scan"
    /\ scan_cursor < scan_region.len
    /\ tried < MaxCandidates
    /\ pc' = "region"
    /\ size' = scan_region.len - scan_cursor
    /\ tried' = tried + 1
    /\ hit_at' = hit_at \cup {scan_cursor}
    /\ UNCHANGED <<exc, unpacked_size, self_data, scan_region, scan_cursor,
                   span_start, scan_nodes, queue, processed>>
    /\ ScanFrame

ScanElfParse == ElfParseOf(ScanElfFiles)

ScanSevenzipParse == SevenzipParseOf(ScanSevenzipHeaders)

\* step 3: the unclaimed bytes from a to b are an opaque data leaf
LeafFromStart(a, b) ==
    IF a < b THEN {[kind |-> "data", start |-> 0, end |-> b]} ELSE {}

Leaf(a, b) ==
    IF a < b THEN {[kind |-> "data", start |-> a, end |-> b]} ELSE {}

\* step 2: the candidate reached PARSED: [offset, offset + unpacked_size) is
\* carved as claimed, a node is recorded for it and the cursor goes past it
Claim ==
    /\ pc = "parsed"
    /\ LET end == scan_cursor + unpacked_size IN
        /\ scan_nodes' = scan_nodes \cup Leaf(span_start, scan_cursor)
               \cup {[kind |-> "claimed", start |-> scan_cursor,
                      end |-> end]}
        /\ scan_cursor' = end
        /\ span_start' = end
    /\ tried' = 0
    /\ pc' = "unpack"
    /\ ParserGone
    /\ UNCHANGED <<scan_region, queue, processed, hit_at>>
    /\ ScanFrame

\* failure policy: the structural error of a candidate is not fatal, the
\* candidate is discarded and the next one is tried at the same offset
Discard ==
    /\ pc = "failed"
    /\ exc = "UnpackParserException"
    /\ pc' = "scan"
    /\ ParserGone
    /\ UNCHANGED scanVars
    /\ ScanFrame

\* step 4: the bound of the recursion, a maximum depth and a cumulative
\* byte budget
MayRecurse(depth, used, len) ==
    depth < MaxDepth /\ used + len <= ByteBudget

\* the children of a claimed region: none, or one of len units, which may
\* be as long as the region it comes from or longer
ChildLens == 0..MaxScan

\* step 4, unpack_directory.py lines 179-185: the child the parser yields
\* is given a node of its own; it is scanned later if the bound allows
Extract ==
    /\ pc = "unpack"
    /\ \E len \in ChildLens :
          IF len > 0 /\ MayRecurse(scan_region.depth, processed, len)
          THEN /\ queue' = Append(queue, [depth |-> scan_region.depth + 1,
                                          len |-> len])
               /\ processed' = processed + len
          ELSE UNCHANGED <<queue, processed>>
    /\ pc' = "scan"
    /\ UNCHANGED <<exc, size, unpacked_size, self_data, scan_region,
                   scan_cursor, span_start, tried, scan_nodes, hit_at>>
    /\ ScanFrame

\* step 3: the cursor is at the end of the region: the bytes after the
\* last claimed region are a data leaf
FinishRegion ==
    /\ pc = "scan"
    /\ scan_cursor >= scan_region.len
    /\ scan_nodes' = scan_nodes \cup Leaf(span_start, scan_region.len)
    /\ span_start' = Max(span_start, scan_region.len)
    /\ pc' = "carved"
    /\ UNCHANGED <<exc, size, unpacked_size, self_data, scan_region,
                   scan_cursor, tried, queue, processed, hit_at>>
    /\ ScanFrame

\* step 4: steps 1 to 3 are repeated for the next child
Recurse ==
    /\ pc = "carved"
    /\ queue # <<>>
    /\ scan_region' = Head(queue)
    /\ queue' = Tail(queue)
    /\ scan_cursor' = 0
    /\ span_start' = 0
    /\ tried' = 0
    /\ scan_nodes' = {}
    /\ hit_at' = {}
    /\ pc' = "scan"
    /\ UNCHANGED <<exc, size, unpacked_size, self_data, processed>>
    /\ ScanFrame

\* the region and every child the bound allowed are scanned
ScanDone == pc = "carved" /\ queue = <<>>

NextScan ==
    \/ NextOffset
    \/ Candidate
    \/ ScanElfParse
    \/ ScanSevenzipParse
    \/ Claim
    \/ Discard
    \/ Extract
    \/ FinishRegion
    \/ Recurse

SpecScan == InitScan /\ [][NextScan]_vars

\* the engine does not stop while a step is left to take
SpecScanFair == SpecScan /\ WF_vars(NextScan)

(***************************************************************************)
(* Properties of parse().                                                  *)
(***************************************************************************)
Ended == pc \in {"parsed", "failed"}

\* the last record read is a content fragment of a regular file that passed
\* the header checksum
IsFragment(n) ==
    n.kind = "inode" /\ n.file_mode = "regular" /\ n.header_crc_ok

\* C1: parse() ends by returning with unpacked_size set or by raising
\* UnpackParserException; no other exception leaves it
C1_OnlyStructuralErrors ==
    /\ pc # "fault"
    /\ pc = "failed" => exc = "UnpackParserException"
    /\ pc = "parsed" => unpacked_size # None

\* C1 failing run: the first record is a passthrough fragment of the root
\* inode at write offset 0, and NameError leaves parse()
C1_NameErrorEscapes ==
    /\ pc = "fault"
    /\ exc = "NameError"
    /\ nrec = 1
    /\ IsFragment(last)
    /\ last.inode_number = RootInode
    /\ last.ofs_write = 0
    /\ last.compression = "no_compression"

\* C2: an accepted fragment has write offset 0 when it is the first of its
\* inode and the running total of its inode otherwise, and a fragment that
\* is not contiguous ends the stream at its own offset, without a fault
C2_ContiguousWriteOffsets ==
    [][(nrec' = nrec + 1 /\ IsFragment(last')) =>
        LET n == last'
            contiguous ==
                IF n.ofs_write = 0
                THEN n.inode_number \notin DOMAIN inode_to_write_offset
                ELSE /\ n.inode_number \in DOMAIN inode_to_write_offset
                     /\ inode_to_write_offset[n.inode_number] = n.ofs_write
        IN /\ pc' = "loop" => contiguous
           /\ ~contiguous => Ended' /\ cur_offset' = n.off]_vars

\* C2 failing run: a fragment of a named inode at write offset 1, with no
\* fragment of the inode before it, and KeyError leaves parse()
C2_GapRaisesKeyError ==
    /\ pc = "fault"
    /\ exc = "KeyError"
    /\ nrec = 2
    /\ IsFragment(last)
    /\ last.inode_number = 2
    /\ last.ofs_write = 1
    /\ inode_to_write_offset = EmptyMap

\* C3: a fragment with a nonzero write offset whose inode has no fragment
\* yet ends the stream at its offset without a fault, and on success
\* unpacked_size is that offset
C3_OrphanFragmentEndsStream ==
    (/\ IsFragment(last)
     /\ last.ofs_write # 0
     /\ last.inode_number \notin DOMAIN inode_to_write_offset)
    => /\ Ended
       /\ cur_offset = last.off
       /\ pc = "parsed" => unpacked_size = last.off

\* C3 failing run: the first record is a fragment of the root inode at a
\* nonzero write offset, and KeyError leaves parse()
C3_OrphanRaisesKeyError ==
    /\ pc = "fault"
    /\ exc = "KeyError"
    /\ nrec = 1
    /\ IsFragment(last)
    /\ last.inode_number = RootInode
    /\ last.ofs_write # 0
    /\ cur_offset = last.off

\* C4: after one valid directory entry for inode n under the root and one
\* passthrough fragment for n at write offset 0, parse() has neither failed
\* nor faulted: the fragment is accepted
C4_ScenarioBParses ==
    \A n \in Inodes \ {0}, v \in Versions :
        (/\ nrec = 2
         /\ IsFragment(last)
         /\ last.inode_number = n
         /\ last.ofs_write = 0
         /\ last.compression = "no_compression"
         /\ inodes_seen_version = {<<n, v>>}
         /\ parent_inodes_seen = {RootInode}
         /\ n \in DOMAIN inode_to_filename)
        => pc = "loop" /\ n \in DOMAIN inode_to_write_offset

\* C4 failing run: the directory entry of inode 2 under the root, then the
\* passthrough fragment of inode 2, and NameError leaves parse()
C4_ScenarioBFaults ==
    /\ pc = "fault"
    /\ exc = "NameError"
    /\ nrec = 2
    /\ IsFragment(last)
    /\ last.inode_number = 2
    /\ last.ofs_write = 0
    /\ last.compression = "no_compression"
    /\ inodes_seen_version = {<<2, 1>>}
    /\ parent_inodes_seen = {RootInode}
    /\ inode_to_filename[2] = <<"a">>

\* C5: parse() succeeds only if a regular-file fragment was accepted (its
\* write offset recorded) and a directory entry under the root was read
C5_SuccessNeedsFragmentAndRoot ==
    pc = "parsed" =>
        /\ DOMAIN inode_to_write_offset # {}
        /\ RootInode \in parent_inodes_seen

\* C5 failing run: parse() succeeds on a directory-mode inode record of the
\* root followed by a directory entry under the root that ends the stream,
\* without any fragment and without a path for the entry
C5_SuccessWithoutFragment ==
    /\ pc = "parsed"
    /\ nrec = 2
    /\ inode_to_write_offset = EmptyMap
    /\ inode_to_open_files = {}
    /\ data_unpacked
    /\ last.kind = "dirent"
    /\ last.parent_inode = RootInode
    /\ last.inode_number = 2
    /\ DOMAIN inode_to_filename = {RootInode}

BadChecksum(n) == n.raw = "normal" /\ ~n.header_crc_ok

\* the stream ends at the record read by this step, which leaves the tables
\* and the conditions of success as they were
EndsUnchanged ==
    /\ Ended'
    /\ exc' \in {NoException, "UnpackParserException"}
    /\ cur_offset' = last'.off
    /\ UNCHANGED tables
    /\ pc' = "parsed" => unpacked_size' = last'.off

\* C7: every record with the magic of the file system whose header
\* checksum is wrong ends the stream at its offset without a fault and
\* changes nothing
C7_BadChecksumEndsStream ==
    [][(nrec' = nrec + 1 /\ BadChecksum(last')) => EndsUnchanged]_vars

\* C7 failing run: a record with the magic of the file system, node type 0
\* and a wrong header checksum is stepped over as padding
C7_UncheckedPadding ==
    /\ pc = "loop"
    /\ nrec = 1
    /\ last.kind = "padding"
    /\ BadChecksum(last)
    /\ prev_is_padding
    /\ pos > last.off

\* C10: every record header is read at a multiple of 4
C10_HeadersAligned == pc = "loop" => pos % 4 = 0

\* C10 failing run: after a directory-mode inode record of 69 bytes the
\* next header is read at offset 69
C10_DirectoryInodeUnaligned ==
    /\ pc = "loop"
    /\ nrec = 1
    /\ last.kind = "inode"
    /\ last.file_mode = "directory"
    /\ pos = RawInodeLen + 1

\* C11: a fragment that passes the write-offset test and whose payload its
\* codec cannot decode (zlib, rtime, LZO) or whose codec is unknown ends the
\* stream at its offset, and parse() succeeds with unpacked_size at that
\* offset when the records before it satisfy the conditions of success
C11_UndecodableFragmentEndsStream ==
    [][(/\ nrec' = nrec + 1
        /\ IsFragment(last')
        /\ last'.compression \in {"zlib", "rtime", "lzo", "unknown"}
        /\ last'.ofs_write = 0
        /\ last'.inode_number \notin DOMAIN inode_to_write_offset
        /\ last'.inode_number \notin inode_to_open_files)
       => /\ Ended'
          /\ cur_offset' = last'.off
          /\ SuccessConditions(data_unpacked, parent_inodes_seen)
                => pc' = "parsed" /\ unpacked_size' = last'.off]_vars

\* C11 failing run: a directory-mode inode record of the root, a directory
\* entry under the root and then an LZO fragment: the conditions of success
\* hold and parse() raises the structural error
C11_LzoFailsCandidate ==
    /\ pc = "failed"
    /\ exc = "UnpackParserException"
    /\ nrec = 3
    /\ IsFragment(last)
    /\ last.compression = "lzo"
    /\ SuccessConditions(data_unpacked, parent_inodes_seen)

\* C12: a directory entry with inode number 0 is skipped: the next header
\* is read at its offset plus its declared length, rounded up to 4, and the
\* tables and the conditions of success are left as they were
C12_UnlinkedDirentSkipped ==
    [][(/\ nrec' = nrec + 1
        /\ last'.kind = "dirent"
        /\ last'.header_crc_ok
        /\ last'.inode_number = 0)
       => /\ pc' = "loop"
          /\ pos' = Align4(last'.off + last'.len_inode)
          /\ UNCHANGED tables]_vars

\* C12 failing run: the first record is an unlinked directory entry under
\* the root, and the root counts as seen
C12_UnlinkedDirentSetsRoot ==
    /\ pc = "loop"
    /\ nrec = 1
    /\ last.kind = "dirent"
    /\ last.header_crc_ok
    /\ last.inode_number = 0
    /\ last.parent_inode = RootInode
    /\ pos = Align4(last.off + last.len_inode)
    /\ inodes_seen_version = {}
    /\ parent_inodes_seen = {RootInode}

ScanEnded ==
    /\ pc = "scan"
    /\ task[ROOT_PATH] = "done"
    /\ \A n \in Uuids : task[n] \in {"absent", "done"}

\* the edges that reference c: the node and the key each is stored under
EdgesTo(c) ==
    UNION { { <<p, k>> : k \in { j \in DOMAIN ExtractedFiles(p) :
                                    ExtractedFiles(p)[j] = c } } :
            p \in UdPaths }

\* C15: at the end of a scan every node but the root is referenced by
\* exactly one edge of the store
C15_ExactlyOneParentEdge ==
    ScanEnded =>
        \A c \in Uuids : task[c] # "absent" => Cardinality(EdgesTo(c)) = 1

\* C15 failing run: the root yields two children under one logical path and
\* at the end of the scan no edge references the first
C15_FirstOfSamePathUnreferenced ==
    /\ ScanEnded
    /\ creator[1] = ROOT_PATH
    /\ creator[2] = ROOT_PATH
    /\ pathname[1] = pathname[2]
    /\ EdgesTo(1) = {}
    /\ Cardinality(EdgesTo(2)) = 1

\* C16: an edge that is in extracted_files of a node stays there, under its
\* key and to its child, whatever is done to the store afterwards
C16_EdgesAppendOnly ==
    [][\A n \in UdPaths :
          \A k \in DOMAIN ExtractedFiles(n) :
              /\ k \in DOMAIN ExtractedFiles(n)'
              /\ ExtractedFiles(n)'[k] = ExtractedFiles(n)[k]]_vars

\* C16 failing run: the edge of the root under "a", once to child 1, is to
\* child 2 after add_extracted_file for child 2
C16_EdgeRedirected ==
    /\ pc = "scan"
    /\ task[ROOT_PATH] = "unpacking"
    /\ creator[1] = ROOT_PATH
    /\ creator[2] = ROOT_PATH
    /\ pathname[1] = "a"
    /\ DOMAIN ExtractedFiles(ROOT_PATH) = {"a"}
    /\ ExtractedFiles(ROOT_PATH)["a"] = 2

\* C17: the pathname file and the info file of a node are each written at
\* most once, a read of info returns what the first read returned, and
\* every object of the node that holds a path holds the one persisted
C17_WrittenOnceReadsStable ==
    \A n \in UdPaths :
        /\ writes[n].pathname <= 1
        /\ writes[n].info <= 1
        /\ first_info[n].read => InfoGet(n) = first_info[n].data
        /\ \A o \in Objects : _file_path[n][o] \in {NoPath, pathname[n]}

\* C17 failing run: two children of the root under different paths; info of
\* the root was written twice and no longer reads as it first did
C17_InfoRewritten ==
    /\ pc = "scan"
    /\ writes[ROOT_PATH].info = 2
    /\ InfoGet(ROOT_PATH).labels = {}
    /\ DOMAIN ExtractedFiles(ROOT_PATH) = {"a", "b"}
    /\ first_info[ROOT_PATH].read
    /\ first_info[ROOT_PATH].data = EmptyInfo

\* C19: once the scan is over, the node that yielded a child holds an edge
\* to it, however the tasks of the nodes were interleaved
C19_NoEdgeLost ==
    ScanEnded =>
        \A c \in Uuids :
            creator[c] # None =>
                \E k \in DOMAIN ExtractedFiles(creator[c]) :
                    ExtractedFiles(creator[c])[k] = c

\* C19 failing run: every child is a child of the root, all under the path
\* "a", and the root ends with the one edge to the last of them
C19_OnlyLastSiblingKept ==
    /\ ScanEnded
    /\ \A c \in Uuids : creator[c] = ROOT_PATH /\ pathname[c] = "a"
    /\ ExtractedFiles(ROOT_PATH) = ("a" :> MaxChildren)

(***************************************************************************)
(* Properties of unpacked_path(), write_file() and mkdir().                *)
(***************************************************************************)
\* the location is in the sub-namespace of node ud that the path belongs to
InNamespace(ud, call) ==
    /\ Len(call.location) >= 2
    /\ SubSeq(call.location, 1, 2) =
           <<DirName(ud), IF call.path.absolute THEN ABS_UNPACK_DIR
                          ELSE REL_UNPACK_DIR>>

\* C18: every call of write_file() or mkdir() that returns has written or
\* made a location inside the 'abs' or 'rel' directory of its own node, and
\* two calls with different logical paths end at different locations
C18_PathsStayInNamespace ==
    /\ \A call \in resolved : call.ok => InNamespace(ROOT_PATH, call)
    /\ \A c1, c2 \in resolved :
           (c1.ok /\ c2.ok /\ c1.path # c2.path)
               => c1.location # c2.location

\* C18 failing run: write_file() with the relative path ../pathname has
\* written the pathname file of the node itself
C18_WritesOwnPathname ==
    /\ pc = "paths"
    /\ returned = <<DirName(ROOT_PATH), REL_UNPACK_DIR, "..", "pathname">>
    /\ Returned("write_file",
                [absolute |-> FALSE, parts |-> <<"..", "pathname">>],
                <<DirName(ROOT_PATH), "pathname">>) \in resolved

(***************************************************************************)
(* Properties of the sizes the ELF, GPT, 7z and NIB parsers report.        *)
(***************************************************************************)
\* the end of what the decoded header declares to lie in the region
DeclaredEnd(d) ==
    CASE d.format = "elf" -> Max(ElfProgramEnd(d), ElfSectionEnd(d))
      [] d.format = "gpt" ->
             Max(Max((d.backup_lba + 1) * d.sector_size,
                     d.entries_start * d.sector_size
                         + d.entries_size * d.entries_count),
                 (d.last_lba + 1) * d.sector_size)
      [] d.format = "7z" ->
             SevenzipHeaderLen + d.ofs_next_header + d.len_next_header
      [] d.format = "nib" ->
             Max(Max(d.keys_end, d.values_end), d.class_names_end)
      [] OTHER -> 0

\* C14: when parse() and calculate_unpacked_size() have succeeded,
\* unpacked_size is at most the length of the region, and nothing the
\* header declares reaches beyond the region
C14_UnpackedSizeWithinRegion ==
    (pc = "parsed" /\ self_data.format # "none")
        => /\ unpacked_size <= size
           /\ DeclaredEnd(self_data) <= size

\* C14 failing run: an ELF file with one program header whose segment ends
\* past the end of the region is parsed, with unpacked_size beyond the region
C14_ElfSegmentBeyondRegion ==
    /\ pc = "parsed"
    /\ self_data.format = "elf"
    /\ self_data.qty_program_header = 1
    /\ self_data.qty_section_header = 0
    /\ self_data.offset + self_data.filesz > size
    /\ unpacked_size = self_data.offset + self_data.filesz
    /\ unpacked_size > size

(***************************************************************************)
(* Properties of UnpackDirectory.size.                                     *)
(***************************************************************************)
\* C27: a read of size that returns gives the size the file had when size
\* was first read, which is what _size holds
C27_SizeIsFileSize ==
    (size_result.called /\ ~size_result.raised)
        => /\ _size # None
           /\ size_result.value = _size

\* C27 failing run: the file has 1 byte, size was read, _size holds 1 and
\* the read returned None
C27_SizeReturnsNone ==
    /\ pc = "handle"
    /\ st_size = 1
    /\ _size = 1
    /\ size_result = Gave(None)

(***************************************************************************)
(* Properties of the life of a parser.                                     *)
(***************************************************************************)
\* the states of the parser contract, read off the parser and the meta
\* directory
Unstarted == self_data = NoData
Failure == exc = "UnpackParserException"
Labeled == md_info.written
Unpacked == pc = "unpacked"
UnpackRuns == pc \in {"unpacking", "unpacked"}

LeafFormats == {"wav", "nib", "selinux"}

C28_EveryTurnAdvancesOrEnds ==
    [][/\ (nrec' = nrec + 1 /\ pc' = "loop") => pos' > pos
       /\ (turns' = turns + 1 /\ pc' = "walk") => pos' > pos]_vars

\* C28 failing run: unpack() has read the dirty node of declared length 0
\* at offset 68 in each of its iterations but the first, and is about to
\* read it again
C28_UnpackSpins ==
    /\ pc = "walk"
    /\ turns = MaxTurns
    /\ HeaderAt(pos).kind = "dirty"
    /\ HeaderAt(pos).len_inode = 0
    /\ pos = RawInodeLen
    /\ cur_offset = pos
    /\ unpacked_size > pos

\* the offsets of the records parse() went past
Accepted == {stream[i].off : i \in 1..(nrec - 1)}

UnpackRan == pc \in {"walk", "returned", "raised", "astray"}

\* C29: unpack() reads headers only where parse() went past a record,
\* and it ends by returning with the cursor at unpacked_size, having read
\* every one of them
C29_UnpackWalksWhatParseAccepted ==
    /\ UnpackRan => visited \subseteq Accepted
    /\ pc = "returned" => (cur_offset = unpacked_size /\ visited = Accepted)
    /\ pc \notin {"raised", "astray"}

\* C29 failing run: after the padding at offset 0 unpack() went on at the
\* page boundary, 8 bytes short of where parse() went on, found zero bytes
\* there and returned; the records up to unpacked_size were not read
C29_UnpackEndsAtPageBoundary ==
    /\ pc = "returned"
    /\ cur_offset = PageSize
    /\ visited = {0, PageSize}
    /\ Accepted = {0, PageSize + 8}
    /\ unpacked_size = PageSize + 8 + RawInodeLen

\* inode ino has a path when record i of the file is read: it is the root,
\* or a directory entry before record i names it under an inode that had a
\* path
RECURSIVE Known(_, _)
Known(ino, i) ==
    \/ ino = RootInode
    \/ \E j \in 1..(i - 1) :
          /\ stream[j].kind = "dirent"
          /\ stream[j].inode_number = ino
          /\ ino # 0
          /\ Known(stream[j].parent_inode, j)

\* the same without the root: a directory entry names the inode
Named(ino, i) ==
    \E j \in 1..(i - 1) :
        /\ stream[j].kind = "dirent"
        /\ stream[j].inode_number = ino
        /\ ino # 0
        /\ Known(stream[j].parent_inode, j)

\* the number of the record unpack() reads
Reading == CHOOSE i \in DOMAIN stream : stream[i].off = pos

\* what C30 says of a step, given what it takes for an inode to have a path
C30_Step(HasPath(_, _)) ==
    /\ (nrec' = nrec + 1 /\ last'.kind = "inode" /\ pc' = "loop")
          => HasPath(last'.inode_number, nrec')
    /\ \A ino \in materialized' \ materialized : HasPath(ino, Reading)
    /\ (/\ nrec' = nrec + 1 /\ last'.kind = "inode"
        /\ last'.header_crc_ok
        /\ ~HasPath(last'.inode_number, nrec'))
          => /\ pc' \in {"parsed", "failed"}
             /\ cur_offset' = last'.off
    /\ (/\ turns' = turns + 1 /\ pos \in Accepted
        /\ stream[Reading].kind = "inode"
        /\ ~HasPath(stream[Reading].inode_number, Reading))
          => pc' = "returned" /\ UNCHANGED materialized
    /\ (/\ nrec' = nrec + 1 /\ last'.kind = "dirent"
        /\ ~HasPath(last'.parent_inode, nrec'))
          => UNCHANGED inode_to_filename

\* C30 as stated: an inode record is accepted by parse() and materialized
\* by unpack() only if a directory entry read before it names its inode
\* under a parent that had a path; an inode record of an inode without a
\* path ends the stream at its offset; a directory entry under a parent
\* without a path records no path
C30_ContentNeedsDirent == [][C30_Step(Named)]_vars

\* C30 amended: the same, where the root inode has a path from the start
C30_ContentNeedsKnownPath == [][C30_Step(Known)]_vars

\* C30 witness: parse() went past the inode record of inode 2, which the
\* directory entry before it names under the root, and ended at a third
\* record
C30_NamedContentAccepted ==
    /\ pc = "parsed"
    /\ nrec = 3
    /\ stream[1].kind = "dirent"
    /\ stream[1].inode_number = 2
    /\ stream[1].parent_inode = RootInode
    /\ stream[2].kind = "inode"
    /\ stream[2].inode_number = 2
    /\ stream[2].file_mode = "directory"
    /\ unpacked_size = stream[3].off

(***************************************************************************)
(* Properties of the scan of a region.                                     *)
(***************************************************************************)
\* the claimed regions recorded for the region
Claimed == {n \in scan_nodes : n.kind = "claimed"}

\* C21: the claimed regions of a scan do not overlap each other, each lies
\* within the region that contains it, and the cursor is past every one of
\* them, so that no later claim starts inside an earlier one
C21_ClaimsDisjointAndInside ==
    \A a \in Claimed :
        /\ 0 <= a.start
        /\ a.end <= scan_region.len
        /\ scan_cursor >= a.end
        /\ \A b \in Claimed :
              a # b => (a.end <= b.start \/ b.end <= a.start)

\* an ELF file at offset 1 of a region of 2 units whose segment ends 4
\* units after its start is claimed as [1, 5)
C21_ClaimPastEnd ==
    /\ scan_region.len = 2
    /\ [kind |-> "claimed", start |-> 1, end |-> 5] \in scan_nodes
    /\ pc = "carved"

\* the nodes that cover a byte of the region
Covering(byte) == {n \in scan_nodes : n.start <= byte /\ byte < n.end}

\* a child is handed to the scan by this step
ChildQueued == Len(queue') > Len(queue)

\* C23: once a region is scanned, every byte of it lies in exactly one
\* node, a claimed region or a data leaf; a region without any signature
\* hit is one data leaf over all of it; and a child is only ever taken
\* from the claimed region the cursor has just passed, never from a leaf
C23_EveryByteCoveredOnce ==
    /\ [](pc = "carved" =>
            /\ \A byte \in 0..(scan_region.len - 1) :
                  Cardinality(Covering(byte)) = 1
            /\ hit_at = {} =>
                  scan_nodes = {[kind |-> "data", start |-> 0,
                                 end |-> scan_region.len]})
    /\ [][ChildQueued =>
            /\ \E n \in Claimed : n.end = scan_cursor
            /\ UNCHANGED scan_nodes]_vars

\* a region of 3 units with a claimed region in the middle and a data leaf
\* on either side of it
C23_LeafClaimLeaf ==
    /\ pc = "carved"
    /\ scan_region.len = 3
    /\ scan_nodes = {[kind |-> "data", start |-> 0, end |-> 1],
                     [kind |-> "claimed", start |-> 1, end |-> 2],
                     [kind |-> "data", start |-> 2, end |-> 3]}

\* C24: a candidate whose header checksum does not match fails with
\* UnpackParserException, which the engine answers by trying the next
\* candidate at the same offset: parse() of JFFS2, given a first record with
\* a wrong header checksum, ends in that exception
C24_BadHeaderFailsCandidate ==
    (nrec >= 1 /\ BadChecksum(stream[1]) /\ pc \notin {"start", "loop"})
        => (pc = "failed" /\ exc = "UnpackParserException")

\* parse() has returned with success for a file whose first record has a
\* wrong header checksum and node type 0
C24_BadHeaderClaimed ==
    /\ pc = "parsed"
    /\ BadChecksum(stream[1])
    /\ stream[1].kind = "padding"
    /\ nrec = 3
    /\ unpacked_size = PageSize + 8 + RawInodeLen

\* the recursion is within its bound
Bounded ==
    /\ scan_region.depth <= MaxDepth
    /\ processed <= ByteBudget
    /\ \A i \in DOMAIN queue : queue[i].depth <= MaxDepth

\* the scan of a region as the specification describes it ends, and it
\* scans no region deeper than the maximum depth or beyond the byte budget,
\* whatever the length of the children
ScanTerminates == []Bounded /\ <>ScanDone

\* the turns of a loop that was still advancing are no longer counted
OutOfTurns == turns = MaxTurns /\ pos > cur_offset

=============================================================================
